---- MODULE Spec2Model ----
(***************************************************************************)
(* Undo/redo history of the design editor: the HistoryManager of           *)
(* src/src/history.ts (legacy twin src/js/history.js) and the FigmaApp     *)
(* handlers of src/src/app.ts that drive it.                               *)
(*                                                                         *)
(* Three specifications share the module:                                  *)
(*   Spec         the FigmaApp: tool gestures, property edits, undo, redo  *)
(*   SpecHistory  a HistoryManager called directly through its public API  *)
(*   SpecHeap     the same HistoryManager with snapshots as object         *)
(*                references into a heap, for aliasing                     *)
(***************************************************************************)
EXTENDS Integers, Sequences, FiniteSets, TLC

VARIABLES
    objects,          \* FigmaApp.objects: the top-level objects, bottom first
    selectedObjects,  \* FigmaApp.selectedObjects, as the ids of the objects
    history,          \* FigmaApp.history / the HistoryManager under test
    nextId,           \* number of ids Utils.generateId has handed out
    components,       \* FigmaApp.components: componentId -> id of the component
    op,               \* the HistoryManager method the last handler called
    arg,              \* the state passed to that call
    ret,              \* what that call returned
    pushed,           \* SpecHistory: states pushed since the history was empty
    onlyPushes,       \* SpecHistory: nothing but push was called since then
    heap,             \* SpecHeap: address -> cell
    undoRefs,         \* SpecHeap: HistoryManager.undoStack, as addresses
    redoRefs,         \* SpecHeap: HistoryManager.redoStack, as addresses
    shadowUndo,       \* SpecHeap: what the state stored in each undo entry denoted
    shadowRedo,       \* SpecHeap: what the state stored in each redo entry denoted
    nodes,            \* SpecContainers: object reference -> the object
    renderer,         \* SpecRender: the Renderer
    frames,           \* SpecRender: callbacks queued by requestAnimationFrame
    requests,         \* SpecRender: requestRender calls since the last tick
    served,           \* SpecRender: the value of requests when the last tick ran
    toolManager,      \* SpecTools: the ToolManager with its pen and text tools
    sharedObjects     \* SpecRepaint: renderer.objects is the array app.objects is

vars == <<objects, selectedObjects, history, nextId, components, op, arg, ret,
          pushed, onlyPushes, heap, undoRefs, redoRefs, shadowUndo, shadowRedo,
          nodes, renderer, frames, requests, served, toolManager,
          sharedObjects>>

appVars  == <<objects, selectedObjects, nextId, components>>
logVars  == <<pushed, onlyPushes>>
heapVars == <<heap, undoRefs, redoRefs, shadowUndo, shadowRedo>>
treeVars == <<nodes>>
renderVars == <<renderer, frames, requests, served>>
toolVars == <<toolManager>>
shareVars == <<sharedObjects>>
\* the variables of the specifications that stand apart from the app's
auxVars  == <<treeVars, renderVars, toolVars, shareVars>>
\* the variables of the app, its history and their observers
coreVars == <<history, op, arg, ret, appVars, logVars, heapVars>>

(***************************************************************************)
(* Bounds of the model.                                                    *)
(***************************************************************************)
\* HistoryManager.maxSize as constructed here (the default is 100)
MaxSize == 2
\* pushes beyond maxSize that the push log follows
MaxExtra == 2
\* clones of the caller's state the heap has room for
MaxClones == 3
\* the ids Utils.generateId hands out, in this order
ObjectIds == {1, 2}

\* DesignObject constructor: width/height used when the option is falsy
DefaultSize == 100
\* RectangleTool.onMouseUp: a drag under this size on both axes is discarded
MinDragSize == 2
\* width and height a rectangle drag may end with
DragSizes == {<<0, 0>>, <<0, 50>>, <<50, 50>>}
\* numbers typed into the width field of the properties panel
PanelValues == {0}

Front(s) == SubSeq(s, 1, Len(s) - 1)
Last(s) == s[Len(s)]

\* the absent value (null)
Null == [null |-> TRUE]

(***************************************************************************)
(* Utils.deepClone on plain data: arrays are mapped element by element,    *)
(* objects are copied key by key, primitives are returned as they are.     *)
(***************************************************************************)
deepCloneObject(o) == [k \in DOMAIN o |-> o[k]]

deepClone(state) ==
    [objects     |-> [i \in 1..Len(state.objects) |-> deepCloneObject(state.objects[i])],
     selectedIds |-> [i \in 1..Len(state.selectedIds) |-> state.selectedIds[i]]]

(***************************************************************************)
(* HistoryManager                                                          *)
(***************************************************************************)
HistoryManager_new(maxSize) ==
    [maxSize |-> maxSize, undoStack |-> <<>>, redoStack |-> <<>>, isApplying |-> FALSE]

\* the oldest entry is shifted out once the stack is over maxSize
LimitStack(stack, maxSize) ==
    IF Len(stack) > maxSize THEN Tail(stack) ELSE stack

\* push without the isApplying guard
push_IgnoresApplying(h, state) ==
    [h EXCEPT !.redoStack = <<>>,
              !.undoStack = LimitStack(Append(h.undoStack, deepClone(state)), h.maxSize)]

\* push that leaves the redo stack in place
push_KeepsRedo(h, state) ==
    IF h.isApplying THEN h
    ELSE [h EXCEPT !.undoStack = LimitStack(Append(h.undoStack, deepClone(state)), h.maxSize)]

\* push that drops the newest entry of a full stack instead of the oldest
push_EvictsNewest(h, state) ==
    IF h.isApplying THEN h
    ELSE [h EXCEPT !.redoStack = <<>>,
                   !.undoStack = IF Len(h.undoStack) + 1 > h.maxSize
                                 THEN Front(Append(h.undoStack, deepClone(state)))
                                 ELSE Append(h.undoStack, deepClone(state))]

\* push without the size limit
push_Unbounded(h, state) ==
    IF h.isApplying THEN h
    ELSE [h EXCEPT !.redoStack = <<>>,
                   !.undoStack = Append(h.undoStack, deepClone(state))]

HistoryManager_push(h, state) ==
    IF h.isApplying THEN h
    ELSE [h EXCEPT !.redoStack = <<>>,
                   !.undoStack = LimitStack(Append(h.undoStack, deepClone(state)), h.maxSize)]

\* undo that returns the top of the undo stack without removing it
undo_KeepsTop(h, currentState) ==
    IF Len(h.undoStack) = 0 THEN [h |-> h, ret |-> Null]
    ELSE [h   |-> [h EXCEPT !.redoStack = Append(h.redoStack, deepClone(currentState))],
          ret |-> Last(h.undoStack)]

\* undo without the early return on an empty undo stack
undo_NoEmptyCheck(h, currentState) ==
    [h   |-> [h EXCEPT !.redoStack = Append(h.redoStack, deepClone(currentState)),
                       !.undoStack = IF Len(h.undoStack) = 0 THEN <<>> ELSE Front(h.undoStack)],
     ret |-> IF Len(h.undoStack) = 0 THEN Null ELSE Last(h.undoStack)]

\* returns the new manager and the value returned to the caller
HistoryManager_undo(h, currentState) ==
    IF Len(h.undoStack) = 0 THEN [h |-> h, ret |-> Null]
    ELSE [h   |-> [h EXCEPT !.redoStack = Append(h.redoStack, deepClone(currentState)),
                            !.undoStack = Front(h.undoStack)],
          ret |-> Last(h.undoStack)]

\* redo that takes the bottom of the redo stack (shift for pop)
redo_TakesOldest(h) ==
    IF Len(h.redoStack) = 0 THEN [h |-> h, ret |-> Null]
    ELSE [h   |-> [h EXCEPT !.redoStack = Tail(h.redoStack)],
          ret |-> Head(h.redoStack)]

HistoryManager_redo(h) ==
    IF Len(h.redoStack) = 0 THEN [h |-> h, ret |-> Null]
    ELSE [h   |-> [h EXCEPT !.redoStack = Front(h.redoStack)],
          ret |-> Last(h.redoStack)]

HistoryManager_canUndo(h) == Len(h.undoStack) > 0

HistoryManager_canRedo(h) == Len(h.redoStack) > 0

HistoryManager_clear(h) == [h EXCEPT !.undoStack = <<>>, !.redoStack = <<>>]

HistoryManager_beginApply(h) == [h EXCEPT !.isApplying = TRUE]

HistoryManager_endApply(h) == [h EXCEPT !.isApplying = FALSE]

\* Math.max over a set of numbers
Max(S) == CHOOSE m \in S : \A x \in S : x <= m

(***************************************************************************)
(* DesignObject (Rectangle): construction from data, serialize,            *)
(* deserialize. An object is modelled by its id, type, width, height and   *)
(* rotation.                                                               *)
(***************************************************************************)
\* `options.width || 100`: a falsy option (0 here) takes the default
OrDefault(v, default) == IF v = 0 THEN default ELSE v

\* optional field of an options object
Has(options, field) == field \in DOMAIN options

\* a type tag that is JavaScript's undefined
Undefined == "undefined"

\* The name is carried only by an object whose type tag is undefined: every
\* other object can take the constructor's default, `type` capitalized, and
\* its name plays no part in what is modelled.
DesignObject_new(type, options) ==
    LET object ==
          [id       |-> options.id,
           type     |-> type,
           width    |-> IF Has(options, "width")
                        THEN OrDefault(options.width, DefaultSize) ELSE DefaultSize,
           height   |-> IF Has(options, "height")
                        THEN OrDefault(options.height, DefaultSize) ELSE DefaultSize,
           rotation |-> IF Has(options, "rotation")
                        THEN OrDefault(options.rotation, 0) ELSE 0]
    IN IF type = Undefined /\ Has(options, "name")
       THEN object @@ [name |-> options.name]
       ELSE object

DesignObject_serialize(obj) ==
    LET data == [id |-> obj.id, type |-> obj.type, width |-> obj.width,
                 height |-> obj.height, rotation |-> obj.rotation]
    IN IF Has(obj, "name") THEN data @@ [name |-> obj.name] ELSE data

(***************************************************************************)
(* Component and ComponentInstance. A component carries its componentId,   *)
(* its children and the ids of the instances in its `instances` set; an    *)
(* instance carries its componentId, the id of the master it references    *)
(* (NoMaster when null) and the property names flagged in `overrides`.     *)
(* Positions are not modelled: every object sits at the origin.            *)
(***************************************************************************)
\* masterComponent === null
NoMaster == 0

\* the properties syncFromMaster copies, as far as objects are modelled
SyncedProperties == {"width", "height"}

ComponentInstance_syncFromMaster(inst, master) ==
    IF inst.masterComponent = NoMaster THEN inst
    ELSE [inst EXCEPT
            !.width  = IF "width" \in inst.overrides THEN @ ELSE master.width,
            !.height = IF "height" \in inst.overrides THEN @ ELSE master.height]

\* new ComponentInstance(options); options.masterComponent is the master
\* object when given
ComponentInstance_new(options) ==
    LET base == DesignObject_new("componentInstance", options)
        linked == Has(options, "masterComponent")
        inst == [id              |-> base.id,
                 type            |-> "componentInstance",
                 width           |-> base.width,
                 height          |-> base.height,
                 rotation        |-> base.rotation,
                 componentId     |-> IF Has(options, "componentId")
                                     THEN options.componentId ELSE 0,
                 masterComponent |-> IF linked THEN options.masterComponent.id ELSE NoMaster,
                 overrides       |-> IF Has(options, "overrides")
                                     THEN options.overrides ELSE {}]
    IN IF linked THEN ComponentInstance_syncFromMaster(inst, options.masterComponent)
       ELSE inst

ComponentInstance_setOverride(inst, property, value) ==
    [[inst EXCEPT !.overrides = @ \cup {property}] EXCEPT ![property] = value]

ComponentInstance_resetOverride(inst, property, master) ==
    ComponentInstance_syncFromMaster([inst EXCEPT !.overrides = @ \ {property}], master)

ComponentInstance_serialize(inst) ==
    [id          |-> inst.id,
     type        |-> inst.type,
     width       |-> inst.width,
     height      |-> inst.height,
     rotation    |-> inst.rotation,
     componentId |-> inst.componentId,
     overrides   |-> inst.overrides]

Component_addChild(component, object) ==
    [component EXCEPT !.children = Append(@, object)]

\* Group.updateBounds, every child sitting at the origin
Group_updateBounds(group) ==
    IF Len(group.children) = 0 THEN group
    ELSE [group EXCEPT
            !.width  = Max({group.children[i].width : i \in 1..Len(group.children)}),
            !.height = Max({group.children[i].height : i \in 1..Len(group.children)})]

Group_addChild(group, object) ==
    Group_updateBounds([group EXCEPT !.children = Append(@, object)])

RECURSIVE Group_addChildren(_, _)
\* objs.forEach(obj => group.addChild(obj))
Group_addChildren(group, objs) ==
    IF objs = <<>> THEN group
    ELSE Group_addChildren(Group_addChild(group, Head(objs)), Tail(objs))

RECURSIVE DesignObject_deserialize(_), Component_new(_), Group_new(_), Serialize(_)

\* new Group(options): children given as data are deserialized and added
Group_new(options) ==
    LET base == DesignObject_new("group", options)
        group == [id       |-> base.id,
                  type     |-> "group",
                  width    |-> base.width,
                  height   |-> base.height,
                  rotation |-> base.rotation,
                  children |-> <<>>]
    IN IF Has(options, "children")
       THEN Group_addChildren(group,
                [i \in 1..Len(options.children) |->
                    DesignObject_deserialize(options.children[i])])
       ELSE group

Group_serialize(group) ==
    [id       |-> group.id,
     type     |-> group.type,
     width    |-> group.width,
     height   |-> group.height,
     rotation |-> group.rotation,
     children |-> [i \in 1..Len(group.children) |-> Serialize(group.children[i])]]

\* new Component(options): children given as data are deserialized and added
Component_new(options) ==
    LET base == DesignObject_new("component", options)
    IN [id          |-> base.id,
        type        |-> "component",
        width       |-> base.width,
        height      |-> base.height,
        rotation    |-> base.rotation,
        componentId |-> options.componentId,
        children    |-> IF Has(options, "children")
                        THEN [i \in 1..Len(options.children) |->
                                 DesignObject_deserialize(options.children[i])]
                        ELSE <<>>,
        instances   |-> {}]

\* createInstance that does not add the instance to the component's set
createInstance_Unregistered(component, id) ==
    [component |-> component,
     instance  |-> ComponentInstance_new(
                       [id |-> id, width |-> component.width,
                        height |-> component.height,
                        componentId |-> component.componentId,
                        masterComponent |-> component])]

\* returns the component with the instance in its set, and the instance
Component_createInstance(component, id) ==
    LET instance == ComponentInstance_new(
                        [id |-> id, width |-> component.width,
                         height |-> component.height,
                         componentId |-> component.componentId,
                         masterComponent |-> component])
    IN [component |-> [component EXCEPT !.instances = @ \cup {id}],
        instance  |-> instance]

Component_serialize(component) ==
    [id          |-> component.id,
     type        |-> component.type,
     width       |-> component.width,
     height      |-> component.height,
     rotation    |-> component.rotation,
     componentId |-> component.componentId,
     children    |-> [i \in 1..Len(component.children) |->
                         Serialize(component.children[i])]]

\* obj.serialize(), dispatched on the object's class
Serialize(obj) ==
    CASE obj.type = "component" -> Component_serialize(obj)
      [] obj.type = "group" -> Group_serialize(obj)
      [] obj.type = "componentInstance" -> ComponentInstance_serialize(obj)
      [] OTHER -> DesignObject_serialize(obj)

\* data.type of a record read from a file: JavaScript's undefined when the
\* record has no such field
TypeTag(data) == IF Has(data, "type") THEN data.type ELSE Undefined

DesignObject_deserialize(data) ==
    CASE TypeTag(data) = "component" -> Component_new(data)
      [] TypeTag(data) = "group" -> Group_new(data)
      [] TypeTag(data) = "componentInstance" -> ComponentInstance_new(data)
      [] OTHER -> DesignObject_new(TypeTag(data), data)

\* the DesignObject constructor throws a TypeError: in
\* `options.name || type.charAt(0).toUpperCase() + type.slice(1)` the default
\* is evaluated when the name is missing or empty, and charAt is no method
\* of a type tag that is not a string
DesignObject_new_throws(type, options) ==
    /\ ~(Has(options, "name") /\ options.name # "")
    /\ type = Undefined

\* DesignObject.deserialize(data) throws: in the constructor of the object,
\* or in that of a child a Group or Component deserializes
RECURSIVE DesignObject_deserialize_throws(_)
DesignObject_deserialize_throws(data) ==
    \/ DesignObject_new_throws(TypeTag(data), data)
    \/ /\ TypeTag(data) \in {"component", "group"}
       /\ Has(data, "children")
       /\ \E i \in 1..Len(data.children) :
              DesignObject_deserialize_throws(data.children[i])

(***************************************************************************)
(* Renderer: the render flag and the loop driven by requestAnimationFrame. *)
(* A renderer value carries needsRender, animationId (NoHandle when null), *)
(* what its setters store, and `paints`: how many times render() ran since *)
(* the last run of the loop's callback began.                              *)
(***************************************************************************)
\* animationId === null
NoHandle == 0
\* what requestAnimationFrame returns
FrameHandle == 1

Renderer_requestRender(r) == [r EXCEPT !.needsRender = TRUE]

\* needsRender && this.objects: an array, even an empty one, is truthy
ShouldRender(r) == r.needsRender

\* the callback of startRenderLoop, run once
tick_KeepsFlag(r) ==
    IF ShouldRender(r)
    THEN [r EXCEPT !.paints = 1, !.animationId = FrameHandle]
    ELSE [r EXCEPT !.paints = 0, !.animationId = FrameHandle]

Renderer_tick(r) ==
    IF ShouldRender(r)
    THEN [r EXCEPT !.paints = 1, !.needsRender = FALSE, !.animationId = FrameHandle]
    ELSE [r EXCEPT !.paints = 0, !.animationId = FrameHandle]

Renderer_setObjects(r, objs) ==
    Renderer_requestRender([r EXCEPT !.objects = objs])

Renderer_setSelection(r, sel) ==
    Renderer_requestRender([r EXCEPT !.selectedObjects = sel])

Renderer_setSelectionRect(r, rect) ==
    Renderer_requestRender([r EXCEPT !.selectionRect = rect])

Renderer_setViewport(r, zoom) ==
    Renderer_requestRender([r EXCEPT !.zoom = zoom])

\* the renderer when its constructor returns: init has run resize and
\* startRenderLoop, whose first call of the callback has painted
Renderer_new ==
    Renderer_tick(
        [needsRender     |-> TRUE,
         animationId     |-> NoHandle,
         objects         |-> <<>>,
         selectedObjects |-> <<>>,
         selectionRect   |-> Null,
         zoom            |-> 1,
         paints          |-> 0])

(***************************************************************************)
(* Containers by reference. `ns` maps an object reference to the object:   *)
(* its type, its parent (NoParent when null), its children as references,  *)
(* its geometry and its visibility. A frame also carries its autoLayout    *)
(* (Null when null) and `applied`: whether applyAutoLayout ran on it with  *)
(* an AutoLayout attached since the caller's last call began. A caller     *)
(* holds the references and calls the methods of the objects.              *)
(***************************************************************************)
\* parent === null
NoParent == 0

\* new Frame(), new Group(), new Component({width: 50})
NewFrame ==
    [type |-> "frame", parent |-> NoParent, children |-> <<>>,
     x |-> 0, y |-> 0, width |-> 100, height |-> 100, visible |-> TRUE,
     autoLayout |-> Null, applied |-> FALSE]
NewGroup ==
    [type |-> "group", parent |-> NoParent, children |-> <<>>,
     x |-> 0, y |-> 0, width |-> 100, height |-> 100, visible |-> TRUE]
NewComponent ==
    [type |-> "component", parent |-> NoParent, children |-> <<>>,
     x |-> 0, y |-> 0, width |-> 50, height |-> 100, visible |-> TRUE]

\* the objects a caller has constructed: a frame, a group and a component
\* made 50 wide
NewObjects == <<NewFrame, NewGroup, NewComponent>>

IsContainer(obj) == obj.type \in {"frame", "group", "component"}

\* children.indexOf(object), 0 for -1
IndexOf(seq, x) ==
    IF \E i \in 1..Len(seq) : seq[i] = x
    THEN CHOOSE i \in 1..Len(seq) : seq[i] = x /\ \A j \in 1..(i - 1) : seq[j] # x
    ELSE 0

\* splice(index, 1)
Splice(seq, index) ==
    [i \in 1..(Len(seq) - 1) |-> IF i < index THEN seq[i] ELSE seq[i + 1]]

Min(S) == CHOOSE x \in S : \A y \in S : x <= y

\* Group.updateBounds: the box around the bounds of the children
Group_updateBoundsRef(ns, group) ==
    IF Len(ns[group].children) = 0 THEN ns
    ELSE LET kids == {ns[group].children[i] : i \in 1..Len(ns[group].children)}
             minX == Min({ns[c].x : c \in kids})
             minY == Min({ns[c].y : c \in kids})
             maxX == Max({ns[c].x + ns[c].width : c \in kids})
             maxY == Max({ns[c].y + ns[c].height : c \in kids})
         IN [ns EXCEPT ![group].x = minX, ![group].y = minY,
                       ![group].width = maxX - minX,
                       ![group].height = maxY - minY]

\* `options.spacing || 10`, `options.paddingLeft || 0`, ...: the AutoLayout
\* constructor
AutoLayout_new(options) ==
    [direction         |-> IF Has(options, "direction")
                           THEN options.direction ELSE "horizontal",
     primaryAxisAlign  |-> IF Has(options, "primaryAxisAlign")
                           THEN options.primaryAxisAlign ELSE "start",
     counterAxisAlign  |-> IF Has(options, "counterAxisAlign")
                           THEN options.counterAxisAlign ELSE "start",
     spacing           |-> IF Has(options, "spacing")
                           THEN OrDefault(options.spacing, 10) ELSE 10,
     paddingTop        |-> IF Has(options, "paddingTop") THEN options.paddingTop ELSE 0,
     paddingRight      |-> IF Has(options, "paddingRight") THEN options.paddingRight ELSE 0,
     paddingBottom     |-> IF Has(options, "paddingBottom") THEN options.paddingBottom ELSE 0,
     paddingLeft       |-> IF Has(options, "paddingLeft") THEN options.paddingLeft ELSE 0,
     primaryAxisSizing |-> IF Has(options, "primaryAxisSizing")
                           THEN options.primaryAxisSizing ELSE "hug",
     counterAxisSizing |-> IF Has(options, "counterAxisSizing")
                           THEN options.counterAxisSizing ELSE "hug"]

\* the first loop of AutoLayout.apply: the children's sizes along the
\* layout direction, added up
RECURSIVE TotalSize(_, _, _)
TotalSize(ns, children, isHorizontal) ==
    IF children = <<>> THEN 0
    ELSE (IF isHorizontal THEN ns[Head(children)].width ELSE ns[Head(children)].height)
         + TotalSize(ns, Tail(children), isHorizontal)

\* the first loop of AutoLayout.apply: the largest size across the layout
\* direction, from 0
MaxCrossSize(ns, children, isHorizontal) ==
    Max({0} \cup {IF isHorizontal THEN ns[children[i]].height ELSE ns[children[i]].width :
                     i \in 1..Len(children)})

\* the second loop of AutoLayout.apply, from child `index` on, with
\* currentPos where the child goes
RECURSIVE PlaceChildren(_, _, _, _, _, _)
PlaceChildren(ns, frame, layout, index, currentPos, maxCrossSize) ==
    IF index > Len(ns[frame].children) THEN ns
    ELSE LET child == ns[frame].children[index]
             c == ns[child]
             f == ns[frame]
             align == layout.counterAxisAlign
             placed ==
                 IF layout.direction = "horizontal"
                 THEN [c EXCEPT
                         !.x = currentPos,
                         !.y = CASE align = "center" ->
                                      f.y + layout.paddingTop + (maxCrossSize - c.height) \div 2
                                 [] align = "end" ->
                                      f.y + layout.paddingTop + maxCrossSize - c.height
                                 [] align \in {"start", "stretch"} ->
                                      f.y + layout.paddingTop
                                 [] OTHER -> @,
                         !.height = IF align = "stretch" THEN maxCrossSize ELSE @]
                 ELSE [c EXCEPT
                         !.y = currentPos,
                         !.x = CASE align = "center" ->
                                      f.x + layout.paddingLeft + (maxCrossSize - c.width) \div 2
                                 [] align = "end" ->
                                      f.x + layout.paddingLeft + maxCrossSize - c.width
                                 [] align \in {"start", "stretch"} ->
                                      f.x + layout.paddingLeft
                                 [] OTHER -> @,
                         !.width = IF align = "stretch" THEN maxCrossSize ELSE @]
             step == IF layout.direction = "horizontal" THEN c.width ELSE c.height
         IN PlaceChildren([ns EXCEPT ![child] = placed], frame, layout, index + 1,
                          currentPos + step + layout.spacing, maxCrossSize)

\* AutoLayout.apply(frame)
AutoLayout_apply(ns, frame) ==
    LET layout == ns[frame].autoLayout
        children == ns[frame].children
        isHorizontal == layout.direction = "horizontal"
        totalSize == TotalSize(ns, children, isHorizontal)
                        + layout.spacing * (Len(children) - 1)
        maxCrossSize == MaxCrossSize(ns, children, isHorizontal)
        start == IF isHorizontal THEN ns[frame].x + layout.paddingLeft
                 ELSE ns[frame].y + layout.paddingTop
        placed == PlaceChildren(ns, frame, layout, 1, start, maxCrossSize)
        hugPrimary ==
            IF layout.primaryAxisSizing # "hug" THEN placed
            ELSE IF isHorizontal
            THEN [placed EXCEPT ![frame].width =
                     totalSize + layout.paddingLeft + layout.paddingRight]
            ELSE [placed EXCEPT ![frame].height =
                     totalSize + layout.paddingTop + layout.paddingBottom]
        hugCounter ==
            IF layout.counterAxisSizing # "hug" THEN hugPrimary
            ELSE IF isHorizontal
            THEN [hugPrimary EXCEPT ![frame].height =
                     maxCrossSize + layout.paddingTop + layout.paddingBottom]
            ELSE [hugPrimary EXCEPT ![frame].width =
                     maxCrossSize + layout.paddingLeft + layout.paddingRight]
    IN IF Len(children) = 0 THEN ns ELSE hugCounter

\* The legacy JavaScript AutoLayout.apply: the positioning loop, over the
\* visible children from `index` on. content is [x, y, width, height].
RECURSIVE PlaceChildrenJS(_, _, _, _, _, _, _)
PlaceChildrenJS(ns, children, layout, index, primaryPos, spacingBetween, content) ==
    IF index > Len(children) THEN ns
    ELSE LET child == children[index]
             c == ns[child]
             align == layout.counterAxisAlign
             placed ==
                 IF layout.direction = "horizontal"
                 THEN [c EXCEPT
                         !.x = primaryPos,
                         !.y = CASE align = "center" ->
                                      content.y + (content.height - c.height) \div 2
                                 [] align = "end" ->
                                      content.y + content.height - c.height
                                 [] OTHER -> content.y,
                         !.height = IF align = "stretch" THEN content.height ELSE @]
                 ELSE [c EXCEPT
                         !.y = primaryPos,
                         !.x = CASE align = "center" ->
                                      content.x + (content.width - c.width) \div 2
                                 [] align = "end" ->
                                      content.x + content.width - c.width
                                 [] OTHER -> content.x,
                         !.width = IF align = "stretch" THEN content.width ELSE @]
             step == IF layout.direction = "horizontal" THEN c.width ELSE c.height
         IN PlaceChildrenJS([ns EXCEPT ![child] = placed], children, layout, index + 1,
                            primaryPos + step + spacingBetween, spacingBetween, content)

\* The legacy JavaScript AutoLayout.apply(frame)
AutoLayoutJS_apply(ns, frame) ==
    LET layout == ns[frame].autoLayout
        f == ns[frame]
        isHorizontal == layout.direction = "horizontal"
        IsVisible(c) == ns[c].visible
        children == SelectSeq(f.children, IsVisible)
        content == [x      |-> f.x + layout.paddingLeft,
                    y      |-> f.y + layout.paddingTop,
                    width  |-> f.width - layout.paddingLeft - layout.paddingRight,
                    height |-> f.height - layout.paddingTop - layout.paddingBottom]
        totalChildSize == TotalSize(ns, children, isHorizontal)
        totalPrimarySize == totalChildSize + layout.spacing * (Len(children) - 1)
        maxCounterSize == MaxCrossSize(ns, children, isHorizontal)
        contentStart == IF isHorizontal THEN content.x ELSE content.y
        contentExtent == IF isHorizontal THEN content.width ELSE content.height
        align == layout.primaryAxisAlign
        primaryPos ==
            CASE align = "center" ->
                     contentStart + (contentExtent - totalPrimarySize) \div 2
              [] align = "end" -> contentStart + contentExtent - totalPrimarySize
              [] OTHER -> contentStart
        spacingBetween ==
            IF align = "space-between" /\ Len(children) > 1
            THEN (contentExtent - totalChildSize) \div (Len(children) - 1)
            ELSE layout.spacing
        placed == PlaceChildrenJS(ns, children, layout, 1, primaryPos,
                                  spacingBetween, content)
        hugPrimary ==
            IF layout.primaryAxisSizing # "hug" THEN placed
            ELSE IF isHorizontal
            THEN [placed EXCEPT ![frame].width =
                     totalPrimarySize + layout.paddingLeft + layout.paddingRight]
            ELSE [placed EXCEPT ![frame].height =
                     totalPrimarySize + layout.paddingTop + layout.paddingBottom]
        hugCounter ==
            IF layout.counterAxisSizing # "hug" THEN hugPrimary
            ELSE IF isHorizontal
            THEN [hugPrimary EXCEPT ![frame].height =
                     maxCounterSize + layout.paddingTop + layout.paddingBottom]
            ELSE [hugPrimary EXCEPT ![frame].width =
                     maxCounterSize + layout.paddingLeft + layout.paddingRight]
    IN IF Len(f.children) = 0 THEN ns ELSE hugCounter

Frame_applyAutoLayout(ns, frame) ==
    IF ns[frame].autoLayout # Null
    THEN AutoLayout_apply([ns EXCEPT ![frame].applied = TRUE], frame)
    ELSE ns

Frame_enableAutoLayout(ns, frame, options) ==
    Frame_applyAutoLayout([ns EXCEPT ![frame].autoLayout = AutoLayout_new(options)], frame)

Frame_disableAutoLayout(ns, frame) == [ns EXCEPT ![frame].autoLayout = Null]

\* addChild without the auto layout step
addChildRef_NoLayout(ns, frame, object) ==
    [ns EXCEPT ![object].parent = frame, ![frame].children = Append(@, object)]

Frame_addChildRef(ns, frame, object) ==
    LET pushed_ == [ns EXCEPT ![object].parent = frame,
                              ![frame].children = Append(@, object)]
    IN IF pushed_[frame].autoLayout # Null
       THEN Frame_applyAutoLayout(pushed_, frame)
       ELSE pushed_

Group_addChildRef(ns, group, object) ==
    Group_updateBoundsRef(
        [ns EXCEPT ![object].parent = group, ![group].children = Append(@, object)],
        group)

Component_addChildRef(ns, component, object) ==
    [ns EXCEPT ![object].parent = component, ![component].children = Append(@, object)]

\* container.addChild(object), dispatched on the container's class
AddChildTo(ns, container, object) ==
    CASE ns[container].type = "frame" -> Frame_addChildRef(ns, container, object)
      [] ns[container].type = "group" -> Group_addChildRef(ns, container, object)
      [] ns[container].type = "component" -> Component_addChildRef(ns, container, object)

\* Component.removeChild
Component_removeChildRef(ns, component, object) ==
    LET index == IndexOf(ns[component].children, object)
    IN IF index # 0
       THEN [ns EXCEPT ![object].parent = NoParent,
                       ![component].children = Splice(@, index)]
       ELSE ns

\* removeChild without the auto layout step
removeChildRef_NoLayout(ns, frame, object) ==
    LET index == IndexOf(ns[frame].children, object)
    IN IF index # 0
       THEN [ns EXCEPT ![object].parent = NoParent,
                       ![frame].children = Splice(@, index)]
       ELSE ns

Frame_removeChildRef(ns, frame, object) ==
    LET index == IndexOf(ns[frame].children, object)
        spliced == [ns EXCEPT ![object].parent = NoParent,
                              ![frame].children = Splice(@, index)]
    IN IF index # 0
       THEN IF spliced[frame].autoLayout # Null
            THEN Frame_applyAutoLayout(spliced, frame)
            ELSE spliced
       ELSE ns

Group_removeChildRef(ns, group, object) ==
    LET index == IndexOf(ns[group].children, object)
    IN IF index # 0
       THEN Group_updateBoundsRef(
                [ns EXCEPT ![object].parent = NoParent,
                           ![group].children = Splice(@, index)],
                group)
       ELSE ns

\* container.removeChild(object), dispatched on the container's class
RemoveChildFrom(ns, container, object) ==
    CASE ns[container].type = "frame" -> Frame_removeChildRef(ns, container, object)
      [] ns[container].type = "group" -> Group_removeChildRef(ns, container, object)
      [] ns[container].type = "component" -> Component_removeChildRef(ns, container, object)

(***************************************************************************)
(* Components by reference: a component node also carries `instances`, the *)
(* references in its Set; an instance node carries masterComponent, a      *)
(* reference or NoMaster. Objects made by a call are appended to `ns`.     *)
(***************************************************************************)
\* detach() returning null
NoGroup == 0

\* component.createInstance(x, y): the instance is the last object of the
\* result
Component_createInstanceRef(ns, component, x, y) ==
    LET master == ns[component]
        instance == [type |-> "componentInstance", parent |-> NoParent,
                     x |-> OrDefault(x, 0), y |-> OrDefault(y, 0),
                     width |-> master.width, height |-> master.height,
                     visible |-> TRUE, masterComponent |-> component]
        made == Append(ns, instance)
    IN [made EXCEPT ![component].instances = @ \cup {Len(made)}]

\* child.clone() of an object without children: new Constructor(serialize())
\* with the constructor's defaults; the clone is the last object of the
\* result
DesignObject_cloneRef(ns, object) ==
    LET data == ns[object]
    IN Append(ns, [type |-> data.type, parent |-> NoParent,
                   x |-> OrDefault(data.x, 0), y |-> OrDefault(data.y, 0),
                   width |-> OrDefault(data.width, DefaultSize),
                   height |-> OrDefault(data.height, DefaultSize),
                   visible |-> data.visible])

\* the loop of detach over the master's children, from child `index` on
RECURSIVE DetachChildren(_, _, _, _)
DetachChildren(ns, instance, group, index) ==
    LET master == ns[instance].masterComponent
    IN IF index > Len(ns[master].children) THEN ns
       ELSE LET child == ns[master].children[index]
                made == DesignObject_cloneRef(ns, child)
                cloned == Len(made)
                moved == [made EXCEPT
                            ![cloned].x = ns[instance].x + (ns[child].x - ns[master].x),
                            ![cloned].y = ns[instance].y + (ns[child].y - ns[master].y)]
            IN DetachChildren(Group_addChildRef(moved, group, cloned),
                              instance, group, index + 1)

\* detach that leaves the clones where the master's children are
detach_InPlace(ns, instance) ==
    LET master == ns[instance].masterComponent
        removed == [ns EXCEPT ![master].instances = @ \ {instance}]
        made == Append(removed, [NewGroup EXCEPT !.x = ns[instance].x])
        group == Len(made)
        Copy(s, c) == Group_addChildRef(DesignObject_cloneRef(s, c), group, Len(s) + 1)
        RECURSIVE Copies(_, _)
        Copies(s, k) == IF k > Len(ns[master].children) THEN s
                        ELSE Copies(Copy(s, ns[master].children[k]), k + 1)
    IN IF master # NoMaster
       THEN [ns |-> [Copies(made, 1) EXCEPT ![instance].masterComponent = NoMaster],
             ret |-> group]
       ELSE [ns |-> ns, ret |-> NoGroup]

\* instance.detach(): the objects after the call and the reference returned
ComponentInstance_detach(ns, instance) ==
    LET master == ns[instance].masterComponent
        removed == [ns EXCEPT ![master].instances = @ \ {instance}]
        made == Append(removed,
                       [type |-> "group", parent |-> NoParent, children |-> <<>>,
                        x |-> OrDefault(ns[instance].x, 0),
                        y |-> OrDefault(ns[instance].y, 0),
                        width |-> OrDefault(ns[instance].width, DefaultSize),
                        height |-> OrDefault(ns[instance].height, DefaultSize),
                        visible |-> TRUE])
        group == Len(made)
        filled == DetachChildren(made, instance, group, 1)
    IN IF master # NoMaster
       THEN [ns |-> [filled EXCEPT ![instance].masterComponent = NoMaster],
             ret |-> group]
       ELSE [ns |-> ns, ret |-> NoGroup]

(***************************************************************************)
(* Clones by reference. A path node carries `points`, the reference of its *)
(* array; an instance node carries `overrides`, the reference of its       *)
(* overrides object. An array node carries `items`, an object node `keys`. *)
(***************************************************************************)
\* path.clone(): new Path(path.serialize()); serialize hands out
\* `points: this.points` and the constructor keeps `options.points || []`
Path_cloneRef(ns, path) ==
    Append(ns, [type |-> "path", parent |-> NoParent, points |-> ns[path].points])

\* path.addPoint(point)
Path_addPoint(ns, path, point) ==
    [ns EXCEPT ![ns[path].points].items = Append(@, point)]

\* instance.clone(): new ComponentInstance(instance.serialize()); serialize
\* hands out `overrides: this.overrides` and no masterComponent, and the
\* constructor keeps `options.overrides || {}`
ComponentInstance_cloneRef(ns, instance) ==
    Append(ns, [type |-> "componentInstance", parent |-> NoParent,
                overrides |-> ns[instance].overrides,
                masterComponent |-> NoMaster])

\* instance.setOverride(property, value): the flag in `overrides`
ComponentInstance_setOverrideRef(ns, instance, property) ==
    [ns EXCEPT ![ns[instance].overrides].keys = @ \cup {property}]

(***************************************************************************)
(* Constraints. A constraints value carries the two modes and the original *)
(* child offset and size and parent size captured by initialize. Positions *)
(* and sizes are integers; the callers below keep to inputs on which the   *)
(* divisions of `center` and `scale` are exact.                            *)
(***************************************************************************)
Constraints_new(options) ==
    [horizontal |-> IF Has(options, "horizontal") THEN options.horizontal ELSE "left",
     vertical   |-> IF Has(options, "vertical") THEN options.vertical ELSE "top",
     originalX |-> 0, originalY |-> 0, originalWidth |-> 0, originalHeight |-> 0,
     originalParentWidth |-> 0, originalParentHeight |-> 0]

Constraints_initialize(constraints, child, parent) ==
    [constraints EXCEPT
        !.originalX = child.x - parent.x,
        !.originalY = child.y - parent.y,
        !.originalWidth = child.width,
        !.originalHeight = child.height,
        !.originalParentWidth = parent.width,
        !.originalParentHeight = parent.height]

\* apply with each assignment taken from the child's geometry before the
\* call where the code takes it from the captured originals
apply_FromPrior(c, child, parent) ==
    LET parentDeltaW == parent.width - c.originalParentWidth
        parentDeltaH == parent.height - c.originalParentHeight
    IN [child EXCEPT
          !.x = IF c.horizontal = "right" THEN child.x + parentDeltaW ELSE @,
          !.width = IF c.horizontal = "left-right" THEN child.width + parentDeltaW ELSE @,
          !.y = IF c.vertical = "bottom" THEN child.y + parentDeltaH ELSE @,
          !.height = IF c.vertical = "top-bottom" THEN child.height + parentDeltaH ELSE @]

\* constraints.apply(child, parent): the child it leaves
Constraints_apply(c, child, parent) ==
    LET parentDeltaW == parent.width - c.originalParentWidth
        parentDeltaH == parent.height - c.originalParentHeight
    IN [child EXCEPT
          !.x = CASE c.horizontal \in {"left", "left-right"} -> parent.x + c.originalX
                  [] c.horizontal = "right" -> parent.x + c.originalX + parentDeltaW
                  [] c.horizontal = "center" -> parent.x + c.originalX + parentDeltaW \div 2
                  [] c.horizontal = "scale" ->
                        parent.x + (c.originalX * parent.width) \div c.originalParentWidth
                  [] OTHER -> @,
          !.width = CASE c.horizontal = "scale" ->
                            (c.originalWidth * parent.width) \div c.originalParentWidth
                      [] c.horizontal = "left-right" -> c.originalWidth + parentDeltaW
                      [] OTHER -> @,
          !.y = CASE c.vertical \in {"top", "top-bottom"} -> parent.y + c.originalY
                  [] c.vertical = "bottom" -> parent.y + c.originalY + parentDeltaH
                  [] c.vertical = "center" -> parent.y + c.originalY + parentDeltaH \div 2
                  [] c.vertical = "scale" ->
                        parent.y + (c.originalY * parent.height) \div c.originalParentHeight
                  [] OTHER -> @,
          !.height = CASE c.vertical = "scale" ->
                            (c.originalHeight * parent.height) \div c.originalParentHeight
                       [] c.vertical = "top-bottom" -> c.originalHeight + parentDeltaH
                       [] OTHER -> @]

\* Frame.applyConstraints, from child `index` on
RECURSIVE Frame_applyConstraintsFrom(_, _, _)
Frame_applyConstraintsFrom(ns, frame, index) ==
    IF index > Len(ns[frame].children) THEN ns
    ELSE LET child == ns[frame].children[index]
             applied == IF ns[child].constraints # Null
                        THEN [ns EXCEPT ![child] =
                                 Constraints_apply(@.constraints, @, ns[frame])]
                        ELSE ns
         IN Frame_applyConstraintsFrom(applied, frame, index + 1)

Frame_applyConstraints(ns, frame) == Frame_applyConstraintsFrom(ns, frame, 1)

(***************************************************************************)
(* FigmaApp. An app value is [objects, selectedObjects, history,           *)
(* components].                                                            *)
(***************************************************************************)
App ==
    [objects |-> objects, selectedObjects |-> selectedObjects, history |-> history,
     components |-> components]

\* new Set(array)
Ids(seq) == {seq[i] : i \in 1..Len(seq)}

\* the state object built by saveState and undo
FigmaApp_currentState(app) ==
    [objects     |-> [i \in 1..Len(app.objects) |-> Serialize(app.objects[i])],
     selectedIds |-> app.selectedObjects]

FigmaApp_saveState(app) ==
    [app EXCEPT !.history = HistoryManager_push(@, FigmaApp_currentState(app))]

\* restoreState with no applying guard and a saveState at its end
restoreState_Records(app, state) ==
    LET objs == [i \in 1..Len(state.objects) |-> DesignObject_deserialize(state.objects[i])]
        ids == [i \in 1..Len(objs) |-> objs[i].id]
        IsSelected(id) == id \in Ids(state.selectedIds)
        restored == [app EXCEPT !.objects = objs,
                                !.selectedObjects = SelectSeq(ids, IsSelected)]
    IN FigmaApp_saveState(restored)

\* When the deserialization of an entry throws, the exception leaves
\* restoreState after beginApply and before this.objects is assigned.
FigmaApp_restoreState(app, state) ==
    LET began == [app EXCEPT !.history = HistoryManager_beginApply(@)]
        objs == [i \in 1..Len(state.objects) |-> DesignObject_deserialize(state.objects[i])]
        ids == [i \in 1..Len(objs) |-> objs[i].id]
        IsSelected(id) == id \in Ids(state.selectedIds)
        restored == [began EXCEPT !.objects = objs,
                                  !.selectedObjects = SelectSeq(ids, IsSelected)]
    IN IF \E i \in 1..Len(state.objects) : DesignObject_deserialize_throws(state.objects[i])
       THEN began
       ELSE [restored EXCEPT !.history = HistoryManager_endApply(@)]

\* returns the new app and what history.undo returned
FigmaApp_undo(app) ==
    LET r == HistoryManager_undo(app.history, FigmaApp_currentState(app))
        popped == [app EXCEPT !.history = r.h]
    IN [app |-> IF r.ret # Null THEN FigmaApp_restoreState(popped, r.ret) ELSE popped,
        ret |-> r.ret]

FigmaApp_redo(app) ==
    LET r == HistoryManager_redo(app.history)
        popped == [app EXCEPT !.history = r.h]
    IN [app |-> IF r.ret # Null THEN FigmaApp_restoreState(popped, r.ret) ELSE popped,
        ret |-> r.ret]

FigmaApp_addObject(app, obj) == [app EXCEPT !.objects = Append(@, obj)]

FigmaApp_removeObject(app, id) ==
    LET Other(o) == o.id # id
    IN [app EXCEPT !.objects = SelectSeq(@, Other)]

FigmaApp_selectObjects(app, ids) == [app EXCEPT !.selectedObjects = ids]

FigmaApp_selectAll(app) ==
    FigmaApp_selectObjects(app, [i \in 1..Len(app.objects) |-> app.objects[i].id])

FigmaApp_toggleSelection(app, id) ==
    LET Other(x) == x # id
    IN [app EXCEPT !.selectedObjects =
            IF id \in Ids(@) THEN SelectSeq(@, Other) ELSE Append(@, id)]

RECURSIVE RemoveAll(_, _)
RemoveAll(app, ids) ==
    IF ids = <<>> THEN app
    ELSE RemoveAll(FigmaApp_removeObject(app, Head(ids)), Tail(ids))

FigmaApp_deleteSelection(app) ==
    IF Len(app.selectedObjects) = 0 THEN app
    ELSE LET saved == FigmaApp_saveState(app)
         IN FigmaApp_selectObjects(RemoveAll(saved, saved.selectedObjects), <<>>)

\* the selected objects themselves, in selection order
SelectedObjects(app) ==
    [i \in 1..Len(app.selectedObjects) |->
        LET IsIt(o) == o.id = app.selectedObjects[i]
        IN Head(SelectSeq(app.objects, IsIt))]

\* every object of the document, at any nesting depth
RECURSIVE AllObjects(_)
AllObjects(objs) ==
    IF objs = <<>> THEN <<>>
    ELSE LET o == Head(objs)
         IN <<o>> \o (IF Has(o, "children") THEN AllObjects(o.children) ELSE <<>>)
                \o AllObjects(Tail(objs))

RECURSIVE FindObject(_, _)
\* the object of that id among objs and their descendants, Null when absent
FindObject(objs, id) ==
    IF objs = <<>> THEN Null
    ELSE LET o == Head(objs)
             inner == IF Has(o, "children") THEN FindObject(o.children, id) ELSE Null
         IN IF o.id = id THEN o
            ELSE IF inner # Null THEN inner
            ELSE FindObject(Tail(objs), id)

RECURSIVE ReplaceObject(_, _, _)
\* objs with the object of that id, at any depth, replaced by obj
ReplaceObject(objs, id, obj) ==
    [i \in 1..Len(objs) |->
        IF objs[i].id = id THEN obj
        ELSE IF Has(objs[i], "children")
        THEN [objs[i] EXCEPT !.children = ReplaceObject(@, id, obj)]
        ELSE objs[i]]

RECURSIVE AddChildren(_, _)
AddChildren(component, objs) ==
    IF objs = <<>> THEN component
    ELSE AddChildren(Component_addChild(component, Head(objs)), Tail(objs))

\* Map.set(key, value)
MapSet(map, key, value) ==
    [k \in DOMAIN map \cup {key} |-> IF k = key THEN value ELSE map[k]]

\* instance.linkToMaster(component) on objects of the document, given by id
ComponentInstance_linkToMaster(objs, instance, component) ==
    LET inst == FindObject(objs, instance)
        old == IF inst.masterComponent = NoMaster THEN Null
               ELSE FindObject(objs, inst.masterComponent)
        released == IF old = Null THEN objs
                    ELSE ReplaceObject(objs, old.id,
                                       [old EXCEPT !.instances = @ \ {instance}])
        master == [FindObject(released, component) EXCEPT
                      !.instances = @ \cup {instance}]
        linked == ComponentInstance_syncFromMaster(
                      [inst EXCEPT !.masterComponent = component,
                                   !.componentId = master.componentId],
                      master)
    IN ReplaceObject(ReplaceObject(released, component, master), instance, linked)

\* id and componentId are what Utils.generateId hands to the new Component
FigmaApp_createComponent(app, id, componentId) ==
    IF Len(app.selectedObjects) = 0 THEN app
    ELSE LET saved == FigmaApp_saveState(app)
             sel == SelectedObjects(saved)
             component == Component_new(
                 [id          |-> id,
                  componentId |-> componentId,
                  width       |-> Max({sel[i].width : i \in 1..Len(sel)}),
                  height      |-> Max({sel[i].height : i \in 1..Len(sel)})])
             moved == RemoveAll(saved, saved.selectedObjects)
             registered == [moved EXCEPT
                              !.components = MapSet(@, componentId, id)]
         IN FigmaApp_selectObjects(
                FigmaApp_addObject(registered, AddChildren(component, sel)), <<id>>)

\* component is the Component object the caller holds; id is the new
\* instance's
FigmaApp_createInstanceFromComponent(app, component, id) ==
    IF component = Null \/ component.type # "component" THEN app
    ELSE LET saved == FigmaApp_saveState(app)
             r == Component_createInstance(component, id)
             listed == [saved EXCEPT
                          !.objects = ReplaceObject(@, component.id, r.component)]
         IN FigmaApp_selectObjects(FigmaApp_addObject(listed, r.instance), <<id>>)

FigmaApp_duplicateAsInstance(app, id) ==
    LET sel == SelectedObjects(app)
    IN IF Len(sel) = 1 /\ sel[1].type = "component"
       THEN FigmaApp_createInstanceFromComponent(app, sel[1], id)
       ELSE IF Len(sel) = 1 /\ sel[1].type = "componentInstance"
                 /\ sel[1].masterComponent # NoMaster
       THEN FigmaApp_createInstanceFromComponent(
                app, FindObject(app.objects, sel[1].masterComponent), id)
       ELSE app

\* groupSelection that saves the state before it looks at the selection
groupSelection_SavesFirst(app, id) ==
    LET saved == FigmaApp_saveState(app)
        sel == SelectedObjects(saved)
        group == [Group_new([id |-> id]) EXCEPT
                     !.width  = Max({sel[i].width : i \in 1..Len(sel)}),
                     !.height = Max({sel[i].height : i \in 1..Len(sel)})]
        moved == RemoveAll(saved, saved.selectedObjects)
    IN IF Len(app.selectedObjects) < 2 THEN saved
       ELSE FigmaApp_selectObjects(
                FigmaApp_addObject(moved, Group_addChildren(group, sel)), <<id>>)

\* id is what Utils.generateId hands to the new Group
FigmaApp_groupSelection(app, id) ==
    IF Len(app.selectedObjects) < 2 THEN app
    ELSE LET saved == FigmaApp_saveState(app)
             sel == SelectedObjects(saved)
             group == [Group_new([id |-> id]) EXCEPT
                          !.width  = Max({sel[i].width : i \in 1..Len(sel)}),
                          !.height = Max({sel[i].height : i \in 1..Len(sel)})]
             moved == RemoveAll(saved, saved.selectedObjects)
         IN FigmaApp_selectObjects(
                FigmaApp_addObject(moved, Group_addChildren(group, sel)), <<id>>)

RECURSIVE Ungroup(_, _)
\* groups.forEach: the children join the top level, the group leaves it
Ungroup(app, groups) ==
    IF groups = <<>> THEN app
    ELSE LET group == Head(groups)
             added == [app EXCEPT !.objects = @ \o group.children]
         IN Ungroup(FigmaApp_removeObject(added, group.id), Tail(groups))

RECURSIVE Flatten(_)
Flatten(seqs) == IF seqs = <<>> THEN <<>> ELSE Head(seqs) \o Flatten(Tail(seqs))

FigmaApp_ungroupSelection(app) ==
    LET IsGroup(o) == o.type = "group"
        groups == SelectSeq(SelectedObjects(app), IsGroup)
        ungrouped == Flatten([i \in 1..Len(groups) |-> groups[i].children])
    IN IF Len(groups) = 0 THEN app
       ELSE FigmaApp_selectObjects(
                Ungroup(FigmaApp_saveState(app), groups),
                [i \in 1..Len(ungrouped) |-> ungrouped[i].id])

\* distributeSelection moves the objects along an axis; positions are not
\* modelled, which leaves the snapshot it pushes first
FigmaApp_distributeSelection(app) ==
    IF Len(app.selectedObjects) < 3 THEN app
    ELSE FigmaApp_saveState(app)

\* BooleanOperations.performOperation for union, subtract and exclude,
\* which always give a Path; id is what Utils.generateId hands to it.
\* Returns the new app and what the operation returned.
BooleanOperations_performOperation(app, operation, id) ==
    LET selected == SelectedObjects(app)
        validTypes == {"rectangle", "ellipse", "path"}
        result == DesignObject_new("path", [id |-> id])
        saved == FigmaApp_saveState(app)
        removed == FigmaApp_removeObject(
                       FigmaApp_removeObject(saved, selected[1].id), selected[2].id)
    IN IF Len(selected) # 2 THEN [app |-> app, ret |-> Null]
       ELSE IF selected[1].type \notin validTypes \/ selected[2].type \notin validTypes
       THEN [app |-> app, ret |-> Null]
       ELSE [app |-> FigmaApp_selectObjects(FigmaApp_addObject(removed, result), <<id>>),
             ret |-> result]

\* obj.clone(); id is what Utils.generateId hands to the clone
DesignObject_clone(obj, id) ==
    [DesignObject_deserialize(Serialize(obj)) EXCEPT !.id = id]

\* firstId is the first of the ids Utils.generateId hands to the clones
FigmaApp_duplicateSelection(app, firstId) ==
    IF Len(app.selectedObjects) = 0 THEN app
    ELSE LET saved == FigmaApp_saveState(app)
             sel == SelectedObjects(saved)
             newObjects == [i \in 1..Len(sel) |->
                               DesignObject_clone(sel[i], firstId + i - 1)]
         IN FigmaApp_selectObjects(
                [saved EXCEPT !.objects = @ \o newObjects],
                [i \in 1..Len(newObjects) |-> newObjects[i].id])

RECURSIVE DetachEach(_, _, _, _)
\* instances.forEach of detachInstance: instance.detach() and, for the
\* group it returns, the splice that puts the group in the instance's place.
\* id is the next id Utils.generateId hands out: to the Group, then to the
\* clone of each child of the master. groups are the ids of the groups made.
DetachEach(app, instances, id, groups) ==
    IF instances = <<>> THEN [app |-> app, groups |-> groups, id |-> id]
    ELSE LET instance == Head(instances)
             master == FindObject(app.objects, instance.masterComponent)
             clones == [i \in 1..Len(master.children) |->
                           DesignObject_clone(master.children[i], id + i)]
             group == Group_addChildren(
                          Group_new([id |-> id, width |-> instance.width,
                                     height |-> instance.height]),
                          clones)
             unlisted == ReplaceObject(app.objects, master.id,
                                       [master EXCEPT !.instances = @ \ {instance.id}])
             index == CHOOSE i \in 1..Len(unlisted) :
                         /\ unlisted[i].id = instance.id
                         /\ \A j \in 1..(i - 1) : unlisted[j].id # instance.id
             listed == \E i \in 1..Len(unlisted) : unlisted[i].id = instance.id
             spliced == IF listed THEN [unlisted EXCEPT ![index] = group] ELSE unlisted
         IN IF instance.masterComponent = NoMaster
            THEN DetachEach(app, Tail(instances), id, groups)
            ELSE DetachEach([app EXCEPT !.objects = spliced], Tail(instances),
                            id + 1 + Len(master.children), Append(groups, id))

\* detachInstance that leaves the selection as it was
detachInstance_KeepsSelection(app, firstId) ==
    LET IsInstance(o) == o.type = "componentInstance"
        instances == SelectSeq(SelectedObjects(app), IsInstance)
        detached == DetachEach(FigmaApp_saveState(app), instances, firstId, <<>>)
    IN IF Len(instances) = 0 THEN [app |-> app, id |-> firstId]
       ELSE [app |-> detached.app, id |-> detached.id]

\* FigmaApp.detachInstance; returns the app and the next id not handed out
FigmaApp_detachInstance(app, firstId) ==
    LET IsInstance(o) == o.type = "componentInstance"
        instances == SelectSeq(SelectedObjects(app), IsInstance)
        detached == DetachEach(FigmaApp_saveState(app), instances, firstId, <<>>)
    IN IF Len(instances) = 0 THEN [app |-> app, id |-> firstId]
       ELSE [app |-> FigmaApp_selectObjects(detached.app, detached.groups),
             id  |-> detached.id]

\* ExportManager.importJSON, from the parsed data on; the records are
\* deserialized inside a try block before app.objects is assigned
ExportManager_importJSON(app, data) ==
    IF Has(data, "objects")
         /\ \E i \in 1..Len(data.objects) :
                DesignObject_deserialize_throws(data.objects[i])
    THEN app   \* caught: 'Failed to import file'; nothing was assigned
    ELSE IF Has(data, "objects")
    THEN FigmaApp_selectObjects(
             [app EXCEPT !.objects = [i \in 1..Len(data.objects) |->
                                         DesignObject_deserialize(data.objects[i])]],
             <<>>)
    ELSE app

\* PanelManager.updateSelectedProperty('width', value)
PanelManager_updateSelectedProperty(app, value) ==
    LET edited == [app EXCEPT !.objects =
                      [i \in 1..Len(@) |->
                          IF @[i].id \in Ids(app.selectedObjects)
                          THEN [@[i] EXCEPT !.width = value] ELSE @[i]]]
    IN FigmaApp_saveState(edited)

\* PanelManager.updateSelectedProperty(property, value) for a transform
\* field of the properties panel
PanelManager_updateTransform(app, property, value) ==
    LET edited == [app EXCEPT !.objects =
                      [i \in 1..Len(@) |->
                          IF @[i].id \in Ids(app.selectedObjects)
                          THEN [@[i] EXCEPT ![property] = value] ELSE @[i]]]
    IN FigmaApp_saveState(edited)

\* Utils.radToDeg(Utils.getAngle(centre, mouse)): Math.atan2(dy, dx) in
\* degrees, to the nearest degree, for a mouse at dir = <<dx, dy>> from the
\* centre
Atan2Deg(dir) ==
    CASE dir = <<1, 0>>   -> 0
      [] dir = <<2, -1>>  -> 0 - 27
      [] dir = <<1, 1>>   -> 45
      [] dir = <<0, 1>>   -> 90
      [] dir = <<-1, 1>>  -> 135
      [] dir = <<-1, 0>>  -> 180
      [] dir = <<-1, -1>> -> 0 - 135
      [] dir = <<0, -1>>  -> 0 - 90
      [] dir = <<1, -1>>  -> 0 - 45

\* Math.round(rotation / 15) * 15
SnapTo15(rotation) == ((2 * rotation + 15) \div 30) * 15

\* SelectTool: onMouseDown on the rotate handle of a selected object, then
\* onMouseMove with the mouse in direction dir from the object's centre,
\* then onMouseUp
SelectTool_rotateGesture(app, id, dir, shiftKey) ==
    LET saved == FigmaApp_saveState(app)
        unsnapped == Atan2Deg(dir) + 90
        rotation == IF shiftKey THEN SnapTo15(unsnapped) ELSE unsnapped
    IN [saved EXCEPT !.objects =
           [i \in 1..Len(@) |->
               IF @[i].id = id THEN [@[i] EXCEPT !.rotation = rotation] ELSE @[i]]]

\* handleResize without the proportion constraint; initial is the bounds
\* taken at mouse down, dx and dy how far the mouse moved since
SelectTool_handleResize(obj, initial, handle, dx, dy) ==
    LET newWidth ==
            CASE handle \in {"nw", "sw", "w"} -> initial.width - dx
              [] handle \in {"ne", "se", "e"} -> initial.width + dx
              [] OTHER -> obj.width
        newHeight ==
            CASE handle \in {"nw", "ne", "n"} -> initial.height - dy
              [] handle \in {"se", "sw", "s"} -> initial.height + dy
              [] OTHER -> obj.height
    IN [obj EXCEPT !.width  = IF newWidth < 1 THEN 1 ELSE newWidth,
                   !.height = IF newHeight < 1 THEN 1 ELSE newHeight]

\* SelectTool: onMouseDown on a resize handle of a selected object, then
\* onMouseMove by dx, dy, then onMouseUp
SelectTool_resizeGesture(app, id, handle, dx, dy) ==
    LET saved == FigmaApp_saveState(app)
    IN [saved EXCEPT !.objects =
           [i \in 1..Len(@) |->
               IF @[i].id = id
               THEN SelectTool_handleResize(@[i], @[i], handle, dx, dy)
               ELSE @[i]]]

\* RectangleTool: onMouseDown, then (when the mouse moved) onMouseMove to a
\* drag of w x h, then onMouseUp
RectangleTool_gesture(app, id, moved, w, h) ==
    LET created == DesignObject_new("rectangle", [id |-> id, width |-> 0, height |-> 0])
        rect == IF moved THEN [created EXCEPT !.width = w, !.height = h] ELSE created
        down == FigmaApp_selectObjects(FigmaApp_addObject(app, rect), <<id>>)
    IN IF rect.width < MinDragSize /\ rect.height < MinDragSize
       THEN FigmaApp_selectObjects(FigmaApp_removeObject(down, id), <<>>)
       ELSE FigmaApp_saveState(down)

\* EllipseTool: onMouseDown, then (when the mouse moved) onMouseMove to a
\* drag of w x h, then onMouseUp
EllipseTool_gesture(app, id, moved, w, h) ==
    LET created == DesignObject_new("ellipse", [id |-> id, width |-> 0, height |-> 0])
        ellipse == IF moved THEN [created EXCEPT !.width = w, !.height = h] ELSE created
        down == FigmaApp_selectObjects(FigmaApp_addObject(app, ellipse), <<id>>)
    IN IF ellipse.width < MinDragSize /\ ellipse.height < MinDragSize
       THEN FigmaApp_selectObjects(FigmaApp_removeObject(down, id), <<>>)
       ELSE FigmaApp_saveState(down)

\* Utils.distance, squared: the square root is monotonic, so a length is
\* under n exactly when its square is under n * n
Utils_distance2(x1, y1, x2, y2) == (x2 - x1) * (x2 - x1) + (y2 - y1) * (y2 - y1)

\* the length under which LineTool.onMouseUp drops the line
MinLineLength == 2

\* LineTool: onMouseDown at the origin (x2, y2 start on x1, y1), then (when
\* the mouse moved) onMouseMove by dx, dy, then onMouseUp
LineTool_gesture(app, id, moved, dx, dy) ==
    LET line == DesignObject_new("line", [id |-> id])
        x2 == IF moved THEN dx ELSE 0
        y2 == IF moved THEN dy ELSE 0
        down == FigmaApp_selectObjects(FigmaApp_addObject(app, line), <<id>>)
    IN IF Utils_distance2(0, 0, x2, y2) < MinLineLength * MinLineLength
       THEN FigmaApp_selectObjects(FigmaApp_removeObject(down, id), <<>>)
       ELSE FigmaApp_saveState(down)

\* the number of points under which PenTool.finishPath drops the path
MinPathPoints == 2

\* PenTool: onMouseDown `clicks` times away from the first point (the first
\* one makes the path; each adds a point), then Enter: finishPath
PenTool_gesture(app, id, clicks) ==
    LET path == DesignObject_new("path", [id |-> id])
        points == clicks
        down == FigmaApp_selectObjects(FigmaApp_addObject(app, path), <<id>>)
    IN IF points < MinPathPoints
       THEN FigmaApp_selectObjects(FigmaApp_removeObject(down, id), <<>>)
       ELSE FigmaApp_saveState(down)

\* String.prototype.trim on a string held as a sequence of characters
RECURSIVE Trim(_)
Trim(s) ==
    IF s = <<>> THEN s
    ELSE IF Head(s) = " " THEN Trim(Tail(s))
    ELSE IF s[Len(s)] = " " THEN Trim(SubSeq(s, 1, Len(s) - 1))
    ELSE s

\* the text a TextObject is constructed with: options.text || 'Text'
TextObject_text(options) ==
    IF Has(options, "text") /\ options.text # <<>>
    THEN options.text
    ELSE <<"T", "e", "x", "t">>

\* TextTool: onMouseDown on empty canvas (editText opens a textarea holding
\* the object's text), the user replaces its content by `input` when
\* `typed`, then blur: finishEditing
TextTool_gesture(app, id, typed, input) ==
    LET options == [id |-> id, width |-> 200, height |-> 24, text |-> <<>>]
        textObj == DesignObject_new("text", options)
        down == FigmaApp_selectObjects(FigmaApp_addObject(app, textObj), <<id>>)
        value == IF typed THEN input ELSE TextObject_text(options)
        text == Trim(value)
    IN IF text # <<>>
       THEN FigmaApp_saveState(down)
       ELSE FigmaApp_selectObjects(FigmaApp_removeObject(down, id), <<>>)

\* SelectTool.onMouseDown on an object (no handle hit)
SelectTool_onMouseDown(app, id, shiftKey) ==
    LET sel == IF ~shiftKey /\ id \notin Ids(app.selectedObjects)
               THEN FigmaApp_selectObjects(app, <<id>>)
               ELSE IF shiftKey THEN FigmaApp_toggleSelection(app, id)
               ELSE app
    IN FigmaApp_saveState(sel)

(***************************************************************************)
(* ToolManager with its tools. A tool manager value is [currentTool, pen,  *)
(* text]: pen is the PenTool's [currentPath, points, editingPath] (the ids *)
(* of the paths, NoObject for null, and the length of currentPath.points), *)
(* text is the TextTool's [editingObject, value] (the id of the object     *)
(* under edit, NoObject when textInput and editingObject are null, and the *)
(* content of the textarea). The tools call back into the app and into     *)
(* setTool, so the operators work on a world [app, tm, thrown]: thrown     *)
(* says the call ended by the engine's RangeError for a call stack deeper  *)
(* than MaxCallDepth nested setTool calls, which nothing catches.          *)
(***************************************************************************)
\* null, for a reference held as an id
NoObject == 0
\* nested setTool calls the engine's call stack holds
MaxCallDepth == 4

\* ToolManager.registerTools
ToolNames == {"select", "rectangle", "ellipse", "line", "text", "pen", "hand", "frame"}

PenTool_new == [currentPath |-> NoObject, points |-> 0, editingPath |-> NoObject]

TextTool_new == [editingObject |-> NoObject, value |-> <<>>]

ToolManager_new == [currentTool |-> "select", pen |-> PenTool_new, text |-> TextTool_new]

World(app, tm) == [app |-> app, tm |-> tm, thrown |-> FALSE]

RECURSIVE ToolManager_setTool(_, _, _)
RECURSIVE PenTool_finishPath(_, _)
RECURSIVE PenTool_exitEditMode(_, _)
RECURSIVE PenTool_deactivate(_, _)
RECURSIVE TextTool_finishEditing(_, _)

\* PenTool.finishPath; depth is the number of setTool calls on the stack
PenTool_finishPath(w, depth) ==
    LET pen == w.tm.pen
        done == IF pen.currentPath = NoObject THEN w
                ELSE IF pen.points < MinPathPoints
                THEN [w EXCEPT !.app = FigmaApp_selectObjects(
                                           FigmaApp_removeObject(@, pen.currentPath), <<>>)]
                ELSE [w EXCEPT !.app = FigmaApp_saveState(@)]
        cleared == [done EXCEPT !.tm.pen = PenTool_new]
    IN ToolManager_setTool(cleared, "select", depth + 1)

PenTool_exitEditMode(w, depth) ==
    ToolManager_setTool([w EXCEPT !.tm.pen.editingPath = NoObject], "select", depth + 1)

PenTool_deactivate(w, depth) ==
    IF w.tm.pen.currentPath # NoObject
    THEN PenTool_finishPath(w, depth)
    ELSE PenTool_exitEditMode(w, depth)

\* PenTool.activate: a single selected path enters edit mode
PenTool_activate(w) ==
    IF Len(w.app.selectedObjects) = 1 /\ SelectedObjects(w.app)[1].type = "path"
    THEN [w EXCEPT !.tm.pen.editingPath = w.app.selectedObjects[1]]
    ELSE w

TextTool_finishEditing(w, depth) ==
    LET text == w.tm.text
        done == IF Trim(text.value) # <<>>
                THEN [w EXCEPT !.app = FigmaApp_saveState(@)]
                ELSE [w EXCEPT !.app = FigmaApp_selectObjects(
                                           FigmaApp_removeObject(@, text.editingObject), <<>>)]
        cleared == [done EXCEPT !.tm.text = TextTool_new]
    IN IF text.editingObject = NoObject THEN w
       ELSE ToolManager_setTool(cleared, "select", depth + 1)

\* TextTool.deactivate
TextTool_deactivate(w, depth) == TextTool_finishEditing(w, depth)

\* ToolManager.setTool; the other tools inherit the empty activate and
\* deactivate of Tool
ToolManager_setTool(w, toolName, depth) ==
    IF depth > MaxCallDepth THEN [w EXCEPT !.thrown = TRUE]
    ELSE IF toolName \notin ToolNames THEN w
    ELSE LET left == CASE w.tm.currentTool = "pen" -> PenTool_deactivate(w, depth)
                       [] w.tm.currentTool = "text" -> TextTool_deactivate(w, depth)
                       [] OTHER -> w
             set == [left EXCEPT !.tm.currentTool = toolName]
         IN IF left.thrown THEN left
            ELSE IF toolName = "pen" THEN PenTool_activate(set) ELSE set

\* PenTool.onMouseDown. target is what the hit tests say of the click:
\* "point" on a point of the path under edit, "inside" within that path's
\* bounds, "first" inside and within 15 px of the first point, "away"
\* outside the path under edit. id is the id of a path made by the click.
PenTool_onMouseDown(w, id, target) ==
    LET pen == w.tm.pen
        exited == IF pen.editingPath # NoObject /\ target = "away"
                  THEN PenTool_exitEditMode(w, 0) ELSE w
        path == DesignObject_new("path", [id |-> id])
        made == IF exited.tm.pen.currentPath # NoObject THEN exited
                ELSE [exited EXCEPT
                        !.app = FigmaApp_selectObjects(FigmaApp_addObject(@, path), <<id>>),
                        !.tm.pen = [currentPath |-> id, points |-> 0, editingPath |-> id]]
    IN IF pen.editingPath # NoObject /\ target = "point"
       THEN [w EXCEPT !.app = FigmaApp_saveState(@)]
       ELSE IF exited.thrown THEN exited
       ELSE IF made.tm.pen.points > 2 /\ target = "first"
       THEN PenTool_finishPath(made, 0)
       ELSE [made EXCEPT !.tm.pen.points = @ + 1]

\* TextTool.onMouseDown on empty canvas, with editText
TextTool_onMouseDown(w, id) ==
    LET options == [id |-> id, width |-> 200, height |-> 24, text |-> <<>>]
        textObj == DesignObject_new("text", options)
        added == [w EXCEPT !.app = FigmaApp_selectObjects(
                                       FigmaApp_addObject(@, textObj), <<id>>)]
        finished == IF added.tm.text.editingObject # NoObject
                    THEN TextTool_finishEditing(added, 0) ELSE added
    IN IF finished.thrown THEN finished
       ELSE [finished EXCEPT !.tm.text = [editingObject |-> id,
                                          value |-> TextObject_text(options)]]

\* RectangleTool.onMouseDown .. onMouseUp, with the setTool('select') that
\* ends onMouseUp
RectangleTool_onMouseUp(w, id, moved, width, height) ==
    ToolManager_setTool(
        [w EXCEPT !.app = RectangleTool_gesture(@, id, moved, width, height)],
        "select", 1)

(***************************************************************************)
(* Spec: the FigmaApp driven by its handlers.                              *)
(***************************************************************************)
SetApp(app) ==
    /\ objects' = app.objects
    /\ selectedObjects' = app.selectedObjects
    /\ history' = app.history
    /\ components' = app.components

Init ==
    /\ objects = <<>>
    /\ selectedObjects = <<>>
    /\ history = HistoryManager_new(MaxSize)
    /\ nextId = 0
    /\ components = <<>>
    /\ nodes = NewObjects
    /\ renderer = Renderer_new
    /\ frames = 1
    /\ requests = 0
    /\ served = 0
    /\ toolManager = ToolManager_new
    /\ sharedObjects = TRUE
    /\ op = "init"
    /\ arg = Null
    /\ ret = Null
    /\ pushed = <<>>
    /\ onlyPushes = TRUE
    /\ heap = <<>>
    /\ undoRefs = <<>>
    /\ redoRefs = <<>>
    /\ shadowUndo = <<>>
    /\ shadowRedo = <<>>

DrawRectangle ==
    /\ nextId + 1 \in ObjectIds
    /\ \E moved \in BOOLEAN, size \in DragSizes :
          LET id == nextId + 1
              a == RectangleTool_gesture(App, id, moved, size[1], size[2])
              kept == Len(a.objects) > Len(objects)
          IN /\ (~moved => size = <<0, 0>>)
             /\ SetApp(a)
             /\ op' = IF kept THEN "push" ELSE "none"
             /\ arg' = IF kept THEN FigmaApp_currentState(a) ELSE Null
             /\ ret' = Null
    /\ nextId' = nextId + 1
    /\ UNCHANGED <<auxVars, logVars, heapVars>>

ClickObject ==
    /\ \E i \in 1..Len(objects), shiftKey \in BOOLEAN :
          LET a == SelectTool_onMouseDown(App, objects[i].id, shiftKey)
          IN /\ SetApp(a)
             /\ op' = "push"
             /\ arg' = FigmaApp_currentState(a)
             /\ ret' = Null
    /\ UNCHANGED <<auxVars, nextId, logVars, heapVars>>

EditWidth ==
    /\ \E v \in PanelValues :
          LET a == PanelManager_updateSelectedProperty(App, v)
          IN /\ SetApp(a)
             /\ op' = "push"
             /\ arg' = FigmaApp_currentState(a)
             /\ ret' = Null
    /\ UNCHANGED <<auxVars, nextId, logVars, heapVars>>

DeleteSelection ==
    /\ SetApp(FigmaApp_deleteSelection(App))
    /\ op' = IF Len(selectedObjects) = 0 THEN "none" ELSE "push"
    /\ arg' = IF Len(selectedObjects) = 0 THEN Null ELSE FigmaApp_currentState(App)
    /\ ret' = Null
    /\ UNCHANGED <<auxVars, nextId, logVars, heapVars>>

Undo ==
    /\ LET r == FigmaApp_undo(App)
       IN /\ SetApp(r.app)
          /\ ret' = r.ret
    /\ op' = "undo"
    /\ arg' = FigmaApp_currentState(App)
    /\ UNCHANGED <<auxVars, nextId, logVars, heapVars>>

Redo ==
    /\ LET r == FigmaApp_redo(App)
       IN /\ SetApp(r.app)
          /\ ret' = r.ret
    /\ op' = "redo"
    /\ arg' = Null
    /\ UNCHANGED <<auxVars, nextId, logVars, heapVars>>

Next ==
    \/ DrawRectangle
    \/ ClickObject
    \/ EditWidth
    \/ DeleteSelection
    \/ Undo
    \/ Redo

Spec == Init /\ [][Next]_vars

(***************************************************************************)
(* SpecHistory: a HistoryManager whose public methods a caller invokes in  *)
(* any order, with any state.                                              *)
(***************************************************************************)
\* a document of one rectangle of the given width, selected
StateOfWidth(w) ==
    [objects     |-> <<[id |-> 1, type |-> "rectangle", width |-> w, height |-> DefaultSize]>>,
     selectedIds |-> <<1>>]

\* the states the caller passes to push and undo
CallerStates == {StateOfWidth(w) : w \in {10, 20, 30}}

\* the push log follows a run of pushes that starts from an empty history
\* with no restore in progress; any other call ends the run
EndRun ==
    /\ pushed' = <<>>
    /\ onlyPushes' = FALSE

Push ==
    /\ onlyPushes => Len(pushed) < MaxSize + MaxExtra
    /\ \E state \in CallerStates :
          /\ history' = HistoryManager_push(history, state)
          /\ op' = "push"
          /\ arg' = state
          /\ ret' = Null
          /\ pushed' = IF onlyPushes THEN Append(pushed, state) ELSE pushed
    /\ UNCHANGED <<auxVars, onlyPushes, appVars, heapVars>>

HistoryUndo ==
    /\ \E currentState \in CallerStates :
          LET r == HistoryManager_undo(history, currentState)
          IN /\ history' = r.h
             /\ ret' = r.ret
             /\ arg' = currentState
    /\ op' = "undo"
    /\ EndRun
    /\ UNCHANGED <<auxVars, appVars, heapVars>>

HistoryRedo ==
    /\ LET r == HistoryManager_redo(history)
       IN /\ history' = r.h
          /\ ret' = r.ret
    /\ op' = "redo"
    /\ arg' = Null
    /\ EndRun
    /\ UNCHANGED <<auxVars, appVars, heapVars>>

Clear ==
    /\ history' = HistoryManager_clear(history)
    /\ op' = "clear"
    /\ arg' = Null
    /\ ret' = Null
    /\ pushed' = <<>>
    /\ onlyPushes' = ~history.isApplying
    /\ UNCHANGED <<auxVars, appVars, heapVars>>

BeginApply ==
    /\ history' = HistoryManager_beginApply(history)
    /\ op' = "beginApply"
    /\ arg' = Null
    /\ ret' = Null
    /\ EndRun
    /\ UNCHANGED <<auxVars, appVars, heapVars>>

EndApply ==
    /\ history' = HistoryManager_endApply(history)
    /\ op' = "endApply"
    /\ arg' = Null
    /\ ret' = Null
    /\ EndRun
    /\ UNCHANGED <<auxVars, appVars, heapVars>>

NextHistory ==
    \/ Push
    \/ HistoryUndo
    \/ HistoryRedo
    \/ Clear
    \/ BeginApply
    \/ EndApply

SpecHistory == Init /\ [][NextHistory]_vars

(***************************************************************************)
(* SpecHeap: the HistoryManager with JavaScript reference semantics.       *)
(* A value is a primitive or a reference to a heap cell; a cell is an      *)
(* array or an object, holding its values in order (an object also its     *)
(* keys). The stacks hold references. The caller owns one state object,    *)
(* passes it to push and undo, and edits it in place between the calls.    *)
(***************************************************************************)
Prim(x) == [t |-> "prim", v |-> x, a |-> 0]
Ref(addr) == [t |-> "ref", v |-> 0, a |-> addr]
ArrayCell(vals) == [t |-> "array", keys |-> <<>>, vals |-> vals]
ObjectCell(keys, vals) == [t |-> "object", keys |-> keys, vals |-> vals]

\* the new heap and the reference to the cell put on it
Alloc(h, cell) == [h |-> Append(h, cell), v |-> Ref(Len(h) + 1)]

RECURSIVE Utils_deepClone(_, _), deepCloneEach(_, _)

\* a clone one level deep: the new cell shares the nested arrays and objects
deepClone_Shallow(h, value) ==
    IF value.t = "prim" THEN [h |-> h, v |-> value]
    ELSE Alloc(h, h[value.a])

\* Utils.deepClone on a heap: primitives are returned as they are, an array
\* or an object becomes a new cell holding the clones of its values
Utils_deepClone(h, value) ==
    IF value.t = "prim" THEN [h |-> h, v |-> value]
    ELSE LET cell == h[value.a]
             inner == deepCloneEach(h, cell.vals)
         IN Alloc(inner.h, [cell EXCEPT !.vals = inner.vals])

\* the clones of a cell's values, in order, on the heap they leave behind
deepCloneEach(h, vals) ==
    IF vals = <<>> THEN [h |-> h, vals |-> <<>>]
    ELSE LET first == Utils_deepClone(h, Head(vals))
             rest == deepCloneEach(first.h, Tail(vals))
         IN [h |-> rest.h, vals |-> <<first.v>> \o rest.vals]

\* what a value looks like to a reader: the tree it denotes
RECURSIVE Denotes(_, _)
Denotes(h, value) ==
    IF value.t = "prim" THEN value.v
    ELSE LET cell == h[value.a]
         IN [t |-> cell.t, keys |-> cell.keys,
             vals |-> [i \in 1..Len(cell.vals) |-> Denotes(h, cell.vals[i])]]

\* HistoryManager.push, the stacks holding references
HistoryManager_pushRef(hist, h, undoStack, redoStack, state) ==
    IF hist.isApplying THEN [h |-> h, undoStack |-> undoStack, redoStack |-> redoStack]
    ELSE LET c == Utils_deepClone(h, state)
         IN [h |-> c.h,
             undoStack |-> LimitStack(Append(undoStack, c.v), hist.maxSize),
             redoStack |-> <<>>]

\* HistoryManager.undo, the stacks holding references
HistoryManager_undoRef(h, undoStack, redoStack, currentState) ==
    IF Len(undoStack) = 0
    THEN [h |-> h, undoStack |-> undoStack, redoStack |-> redoStack, ret |-> Null]
    ELSE LET c == Utils_deepClone(h, currentState)
         IN [h |-> c.h,
             undoStack |-> Front(undoStack),
             redoStack |-> Append(redoStack, c.v),
             ret |-> Last(undoStack)]

\* the caller's state object {objects: [{id: 1, width: 10}], selectedIds: [1]}
\* is the last of the four cells the heap starts with
CallerHeap ==
    << ArrayCell(<<Prim(1)>>),
       ObjectCell(<<"id", "width">>, <<Prim(1), Prim(10)>>),
       ArrayCell(<<Ref(2)>>),
       ObjectCell(<<"objects", "selectedIds">>, <<Ref(3), Ref(1)>>) >>

CallerState == Ref(Len(CallerHeap))

\* the cells a clone of the caller's state takes
CloneCells == Len(CallerHeap)

\* widths the caller writes into the object nested in its state
CallerWidths == {10, 20}
\* what the caller makes of the selectedIds array of its state
CallerSelections == {<<>>, <<Prim(1)>>}

InitHeap ==
    /\ objects = <<>>
    /\ selectedObjects = <<>>
    /\ history = HistoryManager_new(MaxSize)
    /\ nextId = 0
    /\ components = <<>>
    /\ nodes = NewObjects
    /\ renderer = Renderer_new
    /\ frames = 1
    /\ requests = 0
    /\ served = 0
    /\ toolManager = ToolManager_new
    /\ sharedObjects = TRUE
    /\ op = "init"
    /\ arg = Null
    /\ ret = Null
    /\ pushed = <<>>
    /\ onlyPushes = TRUE
    /\ heap = CallerHeap
    /\ undoRefs = <<>>
    /\ redoRefs = <<>>
    /\ shadowUndo = <<>>
    /\ shadowRedo = <<>>

HasRoom == Len(heap) + CloneCells <= Len(CallerHeap) + MaxClones * CloneCells

\* history.push(state); the shadow takes what the state denotes at the call
HeapPush ==
    /\ HasRoom
    /\ LET r == HistoryManager_pushRef(history, heap, undoRefs, redoRefs, CallerState)
       IN /\ heap' = r.h
          /\ undoRefs' = r.undoStack
          /\ redoRefs' = r.redoStack
    /\ shadowUndo' = IF history.isApplying THEN shadowUndo
                     ELSE LimitStack(Append(shadowUndo, Denotes(heap, CallerState)),
                                     history.maxSize)
    /\ shadowRedo' = IF history.isApplying THEN shadowRedo ELSE <<>>
    /\ op' = "push"
    /\ UNCHANGED <<auxVars, history, arg, ret, appVars, logVars>>

\* history.undo(state)
HeapUndo ==
    /\ HasRoom
    /\ LET r == HistoryManager_undoRef(heap, undoRefs, redoRefs, CallerState)
       IN /\ heap' = r.h
          /\ undoRefs' = r.undoStack
          /\ redoRefs' = r.redoStack
    /\ shadowUndo' = IF Len(shadowUndo) = 0 THEN shadowUndo ELSE Front(shadowUndo)
    /\ shadowRedo' = IF Len(shadowUndo) = 0 THEN shadowRedo
                     ELSE Append(shadowRedo, Denotes(heap, CallerState))
    /\ op' = "undo"
    /\ UNCHANGED <<auxVars, history, arg, ret, appVars, logVars>>

\* history.redo()
HeapRedo ==
    /\ redoRefs' = IF Len(redoRefs) = 0 THEN redoRefs ELSE Front(redoRefs)
    /\ shadowRedo' = IF Len(redoRefs) = 0 THEN shadowRedo ELSE Front(shadowRedo)
    /\ op' = "redo"
    /\ UNCHANGED <<auxVars, heap, undoRefs, shadowUndo, history, arg, ret, appVars, logVars>>

\* the caller writes state.objects[0].width
WriteWidth ==
    /\ \E w \in CallerWidths :
          LET objectsRef == heap[CallerState.a].vals[1]
              rectRef == heap[objectsRef.a].vals[1]
          IN heap' = [heap EXCEPT ![rectRef.a].vals[2] = Prim(w)]
    /\ op' = "write"
    /\ UNCHANGED <<auxVars, undoRefs, redoRefs, shadowUndo, shadowRedo,
                   history, arg, ret, appVars, logVars>>

\* the caller empties or refills state.selectedIds in place
WriteSelection ==
    /\ \E ids \in CallerSelections :
          LET idsRef == heap[CallerState.a].vals[2]
          IN heap' = [heap EXCEPT ![idsRef.a].vals = ids]
    /\ op' = "write"
    /\ UNCHANGED <<auxVars, undoRefs, redoRefs, shadowUndo, shadowRedo,
                   history, arg, ret, appVars, logVars>>

NextHeap ==
    \/ HeapPush
    \/ HeapUndo
    \/ HeapRedo
    \/ WriteWidth
    \/ WriteSelection
    \/ BeginApply
    \/ EndApply

SpecHeap == InitHeap /\ [][NextHeap]_vars

(***************************************************************************)
(* SpecComponents: the FigmaApp driven by the handlers that make, instance *)
(* and edit components, with undo and redo.                                *)
(***************************************************************************)
\* the ids Utils.generateId hands out in a run, in this order
ComponentIds == 1..4
\* the ids among them that may go to a drawn rectangle
RectangleIds == {1}
\* top-level objects beyond which no instance is added
MaxTopLevel == 3
\* the drag that draws the rectangle a component is made of
ComponentDrag == <<50, 50>>
\* widths typed into the properties panel
ComponentWidths == {80}

PlaceRectangle ==
    /\ nextId + 1 \in RectangleIds
    /\ LET a == RectangleTool_gesture(App, nextId + 1, TRUE,
                                      ComponentDrag[1], ComponentDrag[2])
       IN /\ SetApp(a)
          /\ arg' = FigmaApp_currentState(a)
    /\ nextId' = nextId + 1
    /\ op' = "push"
    /\ ret' = Null
    /\ UNCHANGED <<auxVars, logVars, heapVars>>

CreateComponent ==
    /\ nextId + 2 \in ComponentIds
    /\ SetApp(FigmaApp_createComponent(App, nextId + 1, nextId + 2))
    /\ nextId' = IF Len(selectedObjects) = 0 THEN nextId ELSE nextId + 2
    /\ op' = IF Len(selectedObjects) = 0 THEN "none" ELSE "push"
    /\ arg' = IF Len(selectedObjects) = 0 THEN Null ELSE FigmaApp_currentState(App)
    /\ ret' = Null
    /\ UNCHANGED <<auxVars, logVars, heapVars>>

DuplicateAsInstance ==
    /\ nextId + 1 \in ComponentIds
    /\ Len(objects) < MaxTopLevel
    /\ LET a == FigmaApp_duplicateAsInstance(App, nextId + 1)
           made == Len(a.objects) > Len(objects)
       IN /\ SetApp(a)
          /\ nextId' = IF made THEN nextId + 1 ELSE nextId
          /\ op' = IF made THEN "push" ELSE "none"
          /\ arg' = IF made THEN FigmaApp_currentState(App) ELSE Null
    /\ ret' = Null
    /\ UNCHANGED <<auxVars, logVars, heapVars>>

DuplicateSelection ==
    /\ nextId + Len(selectedObjects) \in ComponentIds
    /\ Len(objects) < MaxTopLevel
    /\ SetApp(FigmaApp_duplicateSelection(App, nextId + 1))
    /\ nextId' = nextId + Len(selectedObjects)
    /\ op' = IF Len(selectedObjects) = 0 THEN "none" ELSE "push"
    /\ arg' = IF Len(selectedObjects) = 0 THEN Null ELSE FigmaApp_currentState(App)
    /\ ret' = Null
    /\ UNCHANGED <<auxVars, logVars, heapVars>>

EditComponentWidth ==
    /\ \E v \in ComponentWidths :
          LET a == PanelManager_updateSelectedProperty(App, v)
          IN /\ SetApp(a)
             /\ arg' = FigmaApp_currentState(a)
    /\ op' = "push"
    /\ ret' = Null
    /\ UNCHANGED <<auxVars, nextId, logVars, heapVars>>

\* an exported file: a component of one rectangle and an instance of it
ImportedFiles ==
    {[objects |->
        <<[id |-> 12, type |-> "component", width |-> 50, height |-> 50,
           componentId |-> 13,
           children |-> <<[id |-> 11, type |-> "rectangle",
                           width |-> 50, height |-> 50]>>],
          [id |-> 14, type |-> "componentInstance", width |-> 50, height |-> 50,
           componentId |-> 13, overrides |-> {}]>>]}

\* a file is opened before anything is drawn
ImportJSON ==
    /\ nextId = 0
    /\ \E data \in ImportedFiles : SetApp(ExportManager_importJSON(App, data))
    /\ op' = "import"
    /\ arg' = Null
    /\ ret' = Null
    /\ UNCHANGED <<auxVars, nextId, logVars, heapVars>>

\* a plain click on an object
SelectObject ==
    /\ \E i \in 1..Len(objects) :
          LET a == SelectTool_onMouseDown(App, objects[i].id, FALSE)
          IN /\ SetApp(a)
             /\ arg' = FigmaApp_currentState(a)
    /\ op' = "push"
    /\ ret' = Null
    /\ UNCHANGED <<auxVars, nextId, logVars, heapVars>>

NextComponents ==
    \/ PlaceRectangle
    \/ CreateComponent
    \/ DuplicateAsInstance
    \/ DuplicateSelection
    \/ EditComponentWidth
    \/ SelectObject
    \/ Undo
    \/ Redo

SpecComponents == Init /\ [][NextComponents]_vars

(***************************************************************************)
(* SpecImport: the FigmaApp opening an exported file and editing what it   *)
(* holds, with undo and redo.                                              *)
(***************************************************************************)
NextImport ==
    \/ ImportJSON
    \/ DuplicateAsInstance
    \/ EditComponentWidth
    \/ SelectObject
    \/ Undo
    \/ Redo

SpecImport == Init /\ [][NextImport]_vars

(***************************************************************************)
(* SpecTransform: the FigmaApp with a rectangle that is resized and        *)
(* rotated by its handles and through the properties panel, with undo and  *)
(* redo.                                                                   *)
(***************************************************************************)
\* where the mouse is dragged to from the rotate handle, seen from the centre
RotateDirections == {<<-1, -1>>, <<2, -1>>}
\* the handles dragged and how far: inwards, past the opposite edge
ResizeHandles == {"e", "s"}
ResizeDrags == {<<0 - 60, 0 - 60>>}
\* what is typed into the width and rotation fields of the panel
TypedWidths == {0 - 10}
TypedRotations == {400}

RotateDrag ==
    /\ \E i \in 1..Len(selectedObjects), dir \in RotateDirections, shiftKey \in BOOLEAN :
          LET a == SelectTool_rotateGesture(App, selectedObjects[i], dir, shiftKey)
          IN /\ SetApp(a)
             /\ arg' = FigmaApp_currentState(App)
    /\ op' = "push"
    /\ ret' = Null
    /\ UNCHANGED <<auxVars, nextId, logVars, heapVars>>

ResizeDrag ==
    /\ \E i \in 1..Len(selectedObjects), handle \in ResizeHandles, d \in ResizeDrags :
          LET a == SelectTool_resizeGesture(App, selectedObjects[i], handle, d[1], d[2])
          IN /\ SetApp(a)
             /\ arg' = FigmaApp_currentState(App)
    /\ op' = "push"
    /\ ret' = Null
    /\ UNCHANGED <<auxVars, nextId, logVars, heapVars>>

TypeWidth ==
    /\ \E v \in TypedWidths :
          LET a == PanelManager_updateTransform(App, "width", v)
          IN /\ SetApp(a)
             /\ arg' = FigmaApp_currentState(a)
    /\ op' = "push"
    /\ ret' = Null
    /\ UNCHANGED <<auxVars, nextId, logVars, heapVars>>

TypeRotation ==
    /\ \E v \in TypedRotations :
          LET a == PanelManager_updateTransform(App, "rotation", v)
          IN /\ SetApp(a)
             /\ arg' = FigmaApp_currentState(a)
    /\ op' = "push"
    /\ ret' = Null
    /\ UNCHANGED <<auxVars, nextId, logVars, heapVars>>

NextTransform ==
    \/ PlaceRectangle
    \/ RotateDrag
    \/ ResizeDrag
    \/ TypeWidth
    \/ TypeRotation
    \/ Undo
    \/ Redo

SpecTransform == Init /\ [][NextTransform]_vars

(***************************************************************************)
(* SpecSelection: the FigmaApp with rectangles that are selected, grouped, *)
(* ungrouped, distributed and combined by boolean operations, with undo    *)
(* and redo.                                                               *)
(***************************************************************************)
\* the ids Utils.generateId hands out in a run, in this order
SelectionIds == 1..4
\* the ids among them that may go to a drawn rectangle
ShapeIds == 1..3
\* the boolean operations asked for
Operations == {"union"}

DrawShape ==
    /\ nextId + 1 \in ShapeIds
    /\ LET a == RectangleTool_gesture(App, nextId + 1, TRUE,
                                      ComponentDrag[1], ComponentDrag[2])
       IN /\ SetApp(a)
          /\ arg' = FigmaApp_currentState(a)
    /\ nextId' = nextId + 1
    /\ op' = "push"
    /\ ret' = Null
    /\ UNCHANGED <<auxVars, logVars, heapVars>>

\* a click on an object with the shift key down
ShiftClickObject ==
    /\ \E i \in 1..Len(objects) :
          LET a == SelectTool_onMouseDown(App, objects[i].id, TRUE)
          IN /\ SetApp(a)
             /\ arg' = FigmaApp_currentState(a)
    /\ op' = "push"
    /\ ret' = Null
    /\ UNCHANGED <<auxVars, nextId, logVars, heapVars>>

GroupSelection ==
    /\ LET a == FigmaApp_groupSelection(App, nextId + 1)
           made == \E i \in 1..Len(a.objects) : a.objects[i].id = nextId + 1
       IN /\ made => nextId + 1 \in SelectionIds
          /\ SetApp(a)
          /\ nextId' = IF made THEN nextId + 1 ELSE nextId
    /\ op' = "group"
    /\ arg' = Null
    /\ ret' = Null
    /\ UNCHANGED <<auxVars, logVars, heapVars>>

UngroupSelection ==
    /\ SetApp(FigmaApp_ungroupSelection(App))
    /\ op' = "ungroup"
    /\ arg' = Null
    /\ ret' = Null
    /\ UNCHANGED <<auxVars, nextId, logVars, heapVars>>

DistributeSelection ==
    /\ SetApp(FigmaApp_distributeSelection(App))
    /\ op' = "distribute"
    /\ arg' = Null
    /\ ret' = Null
    /\ UNCHANGED <<auxVars, nextId, logVars, heapVars>>

BooleanOperation ==
    /\ \E operation \in Operations :
          LET r == BooleanOperations_performOperation(App, operation, nextId + 1)
          IN /\ r.ret # Null => nextId + 1 \in SelectionIds
             /\ SetApp(r.app)
             /\ ret' = r.ret
             /\ nextId' = IF r.ret # Null THEN nextId + 1 ELSE nextId
             /\ arg' = operation
    /\ op' = "boolean"
    /\ UNCHANGED <<auxVars, logVars, heapVars>>

NextSelection ==
    \/ DrawShape
    \/ ShiftClickObject
    \/ GroupSelection
    \/ UngroupSelection
    \/ DistributeSelection
    \/ BooleanOperation
    \/ Undo
    \/ Redo

SpecSelection == Init /\ [][NextSelection]_vars

(***************************************************************************)
(* SpecDrawing: the FigmaApp with one gesture of each drawing tool after   *)
(* another, with undo and redo. `op` is "draw" after a gesture and `arg`   *)
(* is the gesture: the tool, whether the mouse moved or the user typed,    *)
(* and the drag, the click count or the text entered.                      *)
(***************************************************************************)
\* the ids Utils.generateId hands out in a run, in this order
DrawingIds == 1..2
\* drags of the rectangle and ellipse tools: width and height in px
ShapeDrags == {<<1, 1>>, <<1, 50>>, <<50, 50>>}
\* drags of the line tool: dx and dy in px
LineDrags == {<<1, 1>>, <<2, 0>>}
\* clicks of the pen tool before Enter
PenClicks == {1, 2}
\* what the user leaves in the textarea
TextInputs == {<<>>, <<" ">>, <<"a">>}

Gesture(tool, moved, extent) == [tool |-> tool, moved |-> moved, extent |-> extent]

Drew(a, g) ==
    /\ SetApp(a)
    /\ nextId' = nextId + 1
    /\ op' = "draw"
    /\ arg' = g
    /\ ret' = Null
    /\ UNCHANGED <<auxVars, logVars, heapVars>>

UseRectangleTool ==
    /\ nextId + 1 \in DrawingIds
    /\ \E moved \in BOOLEAN, d \in ShapeDrags :
          /\ (~moved => d = <<1, 1>>)
          /\ Drew(RectangleTool_gesture(App, nextId + 1, moved, d[1], d[2]),
                  Gesture("rectangle", moved, IF moved THEN d ELSE <<0, 0>>))

UseEllipseTool ==
    /\ nextId + 1 \in DrawingIds
    /\ \E moved \in BOOLEAN, d \in ShapeDrags :
          /\ (~moved => d = <<1, 1>>)
          /\ Drew(EllipseTool_gesture(App, nextId + 1, moved, d[1], d[2]),
                  Gesture("ellipse", moved, IF moved THEN d ELSE <<0, 0>>))

UseLineTool ==
    /\ nextId + 1 \in DrawingIds
    /\ \E moved \in BOOLEAN, d \in LineDrags :
          /\ (~moved => d = <<1, 1>>)
          /\ Drew(LineTool_gesture(App, nextId + 1, moved, d[1], d[2]),
                  Gesture("line", moved, IF moved THEN d ELSE <<0, 0>>))

UsePenTool ==
    /\ nextId + 1 \in DrawingIds
    /\ \E clicks \in PenClicks :
          Drew(PenTool_gesture(App, nextId + 1, clicks),
               Gesture("path", TRUE, clicks))

UseTextTool ==
    /\ nextId + 1 \in DrawingIds
    /\ \E typed \in BOOLEAN, input \in TextInputs :
          /\ (~typed => input = <<>>)
          /\ Drew(TextTool_gesture(App, nextId + 1, typed, input),
                  Gesture("text", typed, input))

NextDrawing ==
    \/ UseRectangleTool
    \/ UseEllipseTool
    \/ UseLineTool
    \/ UsePenTool
    \/ UseTextTool
    \/ Undo
    \/ Redo

SpecDrawing == Init /\ [][NextDrawing]_vars

(***************************************************************************)
(* SpecLoad: the FigmaApp with a rectangle drawn and clicked, files opened  *)
(* over the document, and undo and redo. Some files hold a record whose    *)
(* type tag is none of the known ones.                                     *)
(***************************************************************************)
\* files to open: a rectangle followed by a record with an unknown tag (with
\* and without a name) or with no tag (with and without a name)
LoadedFiles ==
    LET rect == [id |-> 21, type |-> "rectangle", name |-> "Rectangle",
                 width |-> 50, height |-> 50]
    IN {[objects |-> <<rect, [id |-> 22, type |-> "star", name |-> "Star"]>>],
        [objects |-> <<rect, [id |-> 22, type |-> "star"]>>],
        [objects |-> <<rect, [id |-> 22, name |-> "Star"]>>],
        [objects |-> <<rect, [id |-> 22]>>]}

\* File > Open: the file's text parsed, then importJSON
OpenFile ==
    /\ \E data \in LoadedFiles :
          /\ SetApp(ExportManager_importJSON(App, data))
          /\ arg' = data
    /\ op' = "open"
    /\ ret' = Null
    /\ UNCHANGED <<auxVars, nextId, logVars, heapVars>>

NextLoad ==
    \/ PlaceRectangle
    \/ SelectObject
    \/ OpenFile
    \/ Undo
    \/ Redo

SpecLoad == Init /\ [][NextLoad]_vars

(***************************************************************************)
(* SpecRender: the Renderer between display refreshes. Its setters and     *)
(* requestRender are called in any order; the browser runs the queued      *)
(* callback at each refresh.                                               *)
(***************************************************************************)
\* requestRender calls counted between two ticks
MaxRequests == 3
\* what the setters are given
RenderedObjects == {<<>>, <<1>>}
RenderedSelections == {<<>>, <<1>>}
SelectionRects == {Null, [width |-> 10, height |-> 10]}
Zooms == {1, 2}

Requested(r) ==
    /\ requests < MaxRequests
    /\ renderer' = r
    /\ requests' = requests + 1
    /\ op' = "request"
    /\ UNCHANGED <<frames, served>>
    /\ UNCHANGED <<history, arg, ret, appVars, logVars, heapVars, treeVars, toolVars,
                 shareVars>>

RequestRender == Requested(Renderer_requestRender(renderer))

SetObjects == \E objs \in RenderedObjects : Requested(Renderer_setObjects(renderer, objs))

SetSelection ==
    \E sel \in RenderedSelections : Requested(Renderer_setSelection(renderer, sel))

SetSelectionRect ==
    \E rect \in SelectionRects : Requested(Renderer_setSelectionRect(renderer, rect))

SetViewport == \E zoom \in Zooms : Requested(Renderer_setViewport(renderer, zoom))

\* a display refresh: the queued callback runs and queues itself again
Tick ==
    /\ frames > 0
    /\ renderer' = Renderer_tick(renderer)
    /\ served' = requests
    /\ requests' = 0
    /\ op' = "tick"
    /\ UNCHANGED frames
    /\ UNCHANGED <<history, arg, ret, appVars, logVars, heapVars, treeVars, toolVars,
                 shareVars>>

StopRenderLoop ==
    /\ frames' = IF renderer.animationId # NoHandle THEN 0 ELSE frames
    /\ op' = "stop"
    /\ UNCHANGED <<renderer, requests, served>>
    /\ UNCHANGED <<history, arg, ret, appVars, logVars, heapVars, treeVars, toolVars,
                 shareVars>>

\* startRenderLoop on a stopped renderer: the callback runs at once
StartRenderLoop ==
    /\ frames = 0
    /\ renderer' = Renderer_tick(renderer)
    /\ frames' = 1
    /\ served' = requests
    /\ requests' = 0
    /\ op' = "start"
    /\ UNCHANGED <<history, arg, ret, appVars, logVars, heapVars, treeVars, toolVars,
                 shareVars>>

NextRender ==
    \/ RequestRender
    \/ SetObjects
    \/ SetSelection
    \/ SetSelectionRect
    \/ SetViewport
    \/ Tick
    \/ StopRenderLoop
    \/ StartRenderLoop

SpecRender == Init /\ [][NextRender]_vars

(***************************************************************************)
(* SpecContainers: a caller with a frame, a group and a component,         *)
(* calling addChild and removeChild in any order.                          *)
(***************************************************************************)
\* children a container is given in a run
MaxChildren == 2

AddChild ==
    /\ \E container \in DOMAIN nodes, object \in DOMAIN nodes :
          /\ IsContainer(nodes[container])
          /\ Len(nodes[container].children) < MaxChildren
          /\ nodes' = AddChildTo(nodes, container, object)
          /\ arg' = <<container, object>>
    /\ op' = "addChild"
    /\ ret' = Null
    /\ UNCHANGED <<history, appVars, logVars, heapVars, renderVars, toolVars,
                 shareVars>>

RemoveChild ==
    /\ \E container \in DOMAIN nodes, object \in DOMAIN nodes :
          /\ IsContainer(nodes[container])
          /\ nodes' = RemoveChildFrom(nodes, container, object)
          /\ arg' = <<container, object>>
    /\ op' = "removeChild"
    /\ ret' = Null
    /\ UNCHANGED <<history, appVars, logVars, heapVars, renderVars, toolVars,
                 shareVars>>

NextContainers ==
    \/ AddChild
    \/ RemoveChild

SpecContainers == Init /\ [][NextContainers]_vars

(***************************************************************************)
(* SpecLayout: a caller with a frame, a group and three rectangles. The    *)
(* rectangles are added to and removed from the frame, auto layout is      *)
(* enabled and disabled on the frame, and rectangles are resized, in any   *)
(* order.                                                                  *)
(***************************************************************************)
TheFrame == 1
TheGroup == 2
Leaves == {3, 4, 5}

Rectangle_at(x, y, width, height, visible) ==
    [type |-> "rectangle", parent |-> NoParent, x |-> x, y |-> y,
     width |-> width, height |-> height, visible |-> visible]

\* the frame and the group as constructed, and rectangles 20, 30 and 40
\* wide, the second one made with visible: false
LayoutObjects ==
    <<NewFrame, NewGroup,
      Rectangle_at(0, 0, 20, 10, TRUE),
      Rectangle_at(5, 5, 30, 20, FALSE),
      Rectangle_at(50, 0, 40, 10, TRUE)>>

\* the options enableAutoLayout is called with
LayoutOptions ==
    {[primaryAxisSizing |-> "hug"],
     [direction |-> "vertical",
      primaryAxisSizing |-> "fixed", counterAxisSizing |-> "fixed",
      paddingLeft |-> 5, paddingTop |-> 5]}

\* the rectangle that is resized, and the widths it is resized to
ResizedLeaves == {3}
ResizedWidths == {10, 60}

InitLayout ==
    /\ objects = <<>>
    /\ selectedObjects = <<>>
    /\ history = HistoryManager_new(MaxSize)
    /\ nextId = 0
    /\ components = <<>>
    /\ nodes = LayoutObjects
    /\ renderer = Renderer_new
    /\ frames = 1
    /\ requests = 0
    /\ served = 0
    /\ toolManager = ToolManager_new
    /\ sharedObjects = TRUE
    /\ op = "init"
    /\ arg = Null
    /\ ret = Null
    /\ pushed = <<>>
    /\ onlyPushes = TRUE
    /\ heap = <<>>
    /\ undoRefs = <<>>
    /\ redoRefs = <<>>
    /\ shadowUndo = <<>>
    /\ shadowRedo = <<>>

\* a call begins: no applyAutoLayout has run in it yet
Began(ns) ==
    [i \in DOMAIN ns |->
        IF ns[i].type = "frame" THEN [ns[i] EXCEPT !.applied = FALSE] ELSE ns[i]]

Called(name, args) ==
    /\ op' = name
    /\ arg' = args
    /\ ret' = Null
    /\ UNCHANGED <<history, appVars, logVars, heapVars, renderVars, toolVars,
                 shareVars>>

\* frame.addChild(object) with a rectangle the frame does not hold
FrameAddLeaf ==
    \E object \in Leaves :
        /\ IndexOf(nodes[TheFrame].children, object) = 0
        /\ nodes' = AddChildTo(Began(nodes), TheFrame, object)
        /\ Called("addChild", <<TheFrame, object>>)

\* frame.removeChild(object)
FrameRemoveLeaf ==
    \E object \in Leaves :
        /\ nodes' = RemoveChildFrom(Began(nodes), TheFrame, object)
        /\ Called("removeChild", <<TheFrame, object>>)

\* group.addChild(object) with a rectangle the group does not hold
GroupAddLeaf ==
    \E object \in Leaves :
        /\ IndexOf(nodes[TheGroup].children, object) = 0
        /\ nodes' = AddChildTo(Began(nodes), TheGroup, object)
        /\ Called("addChild", <<TheGroup, object>>)

\* group.removeChild(object)
GroupRemoveLeaf ==
    \E object \in Leaves :
        /\ nodes' = RemoveChildFrom(Began(nodes), TheGroup, object)
        /\ Called("removeChild", <<TheGroup, object>>)

EnableAutoLayout ==
    \E options \in LayoutOptions :
        /\ nodes' = Frame_enableAutoLayout(Began(nodes), TheFrame, options)
        /\ Called("enableAutoLayout", <<TheFrame, options>>)

DisableAutoLayout ==
    /\ nodes' = Frame_disableAutoLayout(Began(nodes), TheFrame)
    /\ Called("disableAutoLayout", <<TheFrame>>)

\* a rectangle's own width is set (resize handle, width field)
ResizeLeaf ==
    \E object \in ResizedLeaves, width \in ResizedWidths :
        /\ nodes' = [Began(nodes) EXCEPT ![object].width = width]
        /\ Called("resize", <<object, width>>)

NextLayout ==
    \/ FrameAddLeaf
    \/ FrameRemoveLeaf
    \/ EnableAutoLayout
    \/ DisableAutoLayout
    \/ ResizeLeaf

SpecLayout == InitLayout /\ [][NextLayout]_vars

(***************************************************************************)
(* SpecGroup: the same caller, with the rectangles added to and removed    *)
(* from the group and resized.                                             *)
(***************************************************************************)
NextGroup ==
    \/ GroupAddLeaf
    \/ GroupRemoveLeaf
    \/ ResizeLeaf

SpecGroup == InitLayout /\ [][NextGroup]_vars

(***************************************************************************)
(* SpecAddChild: the same caller, with the rectangles added to the frame   *)
(* and to the group, and auto layout enabled on the frame.                 *)
(***************************************************************************)
NextAddChild ==
    \/ FrameAddLeaf
    \/ GroupAddLeaf
    \/ EnableAutoLayout

SpecAddChild == InitLayout /\ [][NextAddChild]_vars

(***************************************************************************)
(* SpecConstraints: a caller with a frame and one rectangle in it that has *)
(* constraints attached and initialized. The caller resizes and moves the  *)
(* frame, calls applyConstraints, edits the rectangle, and initializes the *)
(* constraints again, in any order.                                        *)
(***************************************************************************)
TheChild == 2
\* the horizontal and vertical modes the constraints are made with
ConstraintModes ==
    {<<"left", "top">>, <<"right", "bottom">>, <<"center", "center">>,
     <<"scale", "scale">>, <<"left-right", "top-bottom">>, <<"scale", "top">>}
\* the sizes the frame is given, and where it is moved to
ParentSizes == {<<100, 100>>, <<200, 50>>, <<50, 200>>}
ParentPositions == {<<0, 0>>, <<10, 10>>}
\* what the rectangle is edited to: x, y, width and height
ChildEdits == {<<20, 20, 40, 20>>}

\* frame.addChild(child); child.constraints = new Constraints(options);
\* child.constraints.initialize(child, frame)
ConstrainedObjects(options) ==
    LET frame == [NewFrame EXCEPT !.children = <<TheChild>>]
        child == [type |-> "rectangle", parent |-> TheFrame, x |-> 20, y |-> 20,
                  width |-> 40, height |-> 20, visible |-> TRUE]
    IN <<frame,
         [type |-> child.type, parent |-> child.parent, x |-> child.x, y |-> child.y,
          width |-> child.width, height |-> child.height, visible |-> child.visible,
          constraints |-> Constraints_initialize(Constraints_new(options), child, frame)]>>

InitConstraints ==
    /\ objects = <<>>
    /\ selectedObjects = <<>>
    /\ history = HistoryManager_new(MaxSize)
    /\ nextId = 0
    /\ components = <<>>
    /\ \E modes \in ConstraintModes :
          nodes = ConstrainedObjects([horizontal |-> modes[1], vertical |-> modes[2]])
    /\ renderer = Renderer_new
    /\ frames = 1
    /\ requests = 0
    /\ served = 0
    /\ toolManager = ToolManager_new
    /\ sharedObjects = TRUE
    /\ op = "init"
    /\ arg = Null
    /\ ret = Null
    /\ pushed = <<>>
    /\ onlyPushes = TRUE
    /\ heap = <<>>
    /\ undoRefs = <<>>
    /\ redoRefs = <<>>
    /\ shadowUndo = <<>>
    /\ shadowRedo = <<>>

\* the divisions apply makes come out whole
Exact(ns) ==
    LET c == ns[TheChild].constraints
        parent == ns[TheFrame]
    IN /\ c.horizontal = "center" => (parent.width - c.originalParentWidth) % 2 = 0
       /\ c.vertical = "center" => (parent.height - c.originalParentHeight) % 2 = 0
       /\ c.horizontal = "scale" =>
             /\ (c.originalX * parent.width) % c.originalParentWidth = 0
             /\ (c.originalWidth * parent.width) % c.originalParentWidth = 0
       /\ c.vertical = "scale" =>
             /\ (c.originalY * parent.height) % c.originalParentHeight = 0
             /\ (c.originalHeight * parent.height) % c.originalParentHeight = 0

Frame_resize(ns, frame, size) ==
    [ns EXCEPT ![frame].width = size[1], ![frame].height = size[2]]

ResizeParent ==
    \E size \in ParentSizes :
        /\ nodes' = Frame_resize(nodes, TheFrame, size)
        /\ Called("resizeParent", size)

MoveParent ==
    \E pos \in ParentPositions :
        /\ nodes' = [nodes EXCEPT ![TheFrame].x = pos[1], ![TheFrame].y = pos[2]]
        /\ Called("moveParent", pos)

ApplyConstraints ==
    /\ Exact(nodes)
    /\ nodes' = Frame_applyConstraints(nodes, TheFrame)
    /\ Called("applyConstraints", <<TheFrame>>)

\* the rectangle dragged and resized by hand
EditChild ==
    \E edit \in ChildEdits :
        /\ nodes' = [nodes EXCEPT ![TheChild].x = edit[1], ![TheChild].y = edit[2],
                                  ![TheChild].width = edit[3],
                                  ![TheChild].height = edit[4]]
        /\ Called("editChild", edit)

\* initialize is called again once the rectangle is where the caller wants
\* its baseline: after applyConstraints or after an edit by hand
Initialize ==
    /\ op \in {"applyConstraints", "editChild"}
    /\ nodes' = [nodes EXCEPT ![TheChild].constraints =
                    Constraints_initialize(@, nodes[TheChild], nodes[TheFrame])]
    /\ Called("initialize", <<TheChild, TheFrame>>)

NextConstraints ==
    \/ ResizeParent
    \/ MoveParent
    \/ ApplyConstraints
    \/ EditChild
    \/ Initialize

SpecConstraints == InitConstraints /\ [][NextConstraints]_vars

(***************************************************************************)
(* SpecDetach: a caller with a component of two rectangles. Instances are  *)
(* created, moved and detached, and the component's rectangles are moved.  *)
(***************************************************************************)
TheComponent == 1
\* instances created in a run
MaxInstances == 2
\* where instances are created and moved to
InstancePositions == {<<0, 0>>, <<100, 60>>}
\* where a rectangle of the component is moved to
ChildPositions == {<<15, 25>>, <<40, 20>>}

\* new Component({x: 10, y: 20, width: 50}) with two rectangles added
ComponentObjects ==
    <<[type |-> "component", parent |-> NoParent, children |-> <<2, 3>>,
       x |-> 10, y |-> 20, width |-> 50, height |-> 100, visible |-> TRUE,
       instances |-> {}],
      [type |-> "rectangle", parent |-> TheComponent, x |-> 15, y |-> 25,
       width |-> 20, height |-> 10, visible |-> TRUE],
      [type |-> "rectangle", parent |-> TheComponent, x |-> 30, y |-> 40,
       width |-> 40, height |-> 10, visible |-> TRUE]>>

InitDetach ==
    /\ objects = <<>>
    /\ selectedObjects = <<>>
    /\ history = HistoryManager_new(MaxSize)
    /\ nextId = 0
    /\ components = <<>>
    /\ nodes = ComponentObjects
    /\ renderer = Renderer_new
    /\ frames = 1
    /\ requests = 0
    /\ served = 0
    /\ toolManager = ToolManager_new
    /\ sharedObjects = TRUE
    /\ op = "init"
    /\ arg = Null
    /\ ret = Null
    /\ pushed = <<>>
    /\ onlyPushes = TRUE
    /\ heap = <<>>
    /\ undoRefs = <<>>
    /\ redoRefs = <<>>
    /\ shadowUndo = <<>>
    /\ shadowRedo = <<>>

Instances(ns) == {i \in DOMAIN ns : ns[i].type = "componentInstance"}

Returned(name, args, result) ==
    /\ op' = name
    /\ arg' = args
    /\ ret' = result
    /\ UNCHANGED <<history, appVars, logVars, heapVars, renderVars, toolVars,
                 shareVars>>

CreateInstance ==
    /\ Cardinality(Instances(nodes)) < MaxInstances
    /\ \E pos \in InstancePositions :
          /\ nodes' = Component_createInstanceRef(nodes, TheComponent, pos[1], pos[2])
          /\ Returned("createInstance", pos, Len(nodes) + 1)

\* an instance dragged on the canvas
MoveInstance ==
    \E instance \in Instances(nodes), pos \in InstancePositions :
        /\ nodes' = [nodes EXCEPT ![instance].x = pos[1], ![instance].y = pos[2]]
        /\ Returned("move", <<instance, pos>>, Null)

\* a rectangle of the component dragged on the canvas
MoveMasterChild ==
    \E pos \in ChildPositions :
        /\ nodes' = [nodes EXCEPT ![2].x = pos[1], ![2].y = pos[2]]
        /\ Returned("move", <<2, pos>>, Null)

DetachInstance ==
    \E instance \in Instances(nodes) :
        LET r == ComponentInstance_detach(nodes, instance)
        IN /\ nodes' = r.ns
           /\ Returned("detach", instance, r.ret)

NextDetach ==
    \/ CreateInstance
    \/ MoveInstance
    \/ MoveMasterChild
    \/ DetachInstance

SpecDetach == InitDetach /\ [][NextDetach]_vars

(***************************************************************************)
(* SpecClone: a caller with a path of two points and a component instance, *)
(* cloning them and then adding points and setting overrides on any of the *)
(* objects it holds.                                                       *)
(***************************************************************************)
\* clones made in a run
MaxCopies == 2
\* points a path's array grows to
MaxPoints == 3
\* the properties overridden
OverriddenProperties == {"width", "fill"}

\* new Path({points: [p, q]}) and an instance made by createInstance
CloneObjects ==
    <<[type |-> "path", parent |-> NoParent, points |-> 2],
      [type |-> "array", items |-> <<[x |-> 0, y |-> 0], [x |-> 10, y |-> 10]>>],
      [type |-> "componentInstance", parent |-> NoParent, overrides |-> 4,
       masterComponent |-> 5],
      [type |-> "object", keys |-> {}],
      [type |-> "component", parent |-> NoParent, children |-> <<>>,
       x |-> 0, y |-> 0, width |-> 50, height |-> 100, visible |-> TRUE,
       instances |-> {3}]>>

InitClone ==
    /\ objects = <<>>
    /\ selectedObjects = <<>>
    /\ history = HistoryManager_new(MaxSize)
    /\ nextId = 0
    /\ components = <<>>
    /\ nodes = CloneObjects
    /\ renderer = Renderer_new
    /\ frames = 1
    /\ requests = 0
    /\ served = 0
    /\ toolManager = ToolManager_new
    /\ sharedObjects = TRUE
    /\ op = "init"
    /\ arg = Null
    /\ ret = Null
    /\ pushed = <<>>
    /\ onlyPushes = TRUE
    /\ heap = <<>>
    /\ undoRefs = <<>>
    /\ redoRefs = <<>>
    /\ shadowUndo = <<>>
    /\ shadowRedo = <<>>

Paths(ns) == {i \in DOMAIN ns : ns[i].type = "path"}

ClonePath ==
    /\ Len(nodes) < Len(CloneObjects) + MaxCopies
    /\ \E path \in Paths(nodes) :
          /\ nodes' = Path_cloneRef(nodes, path)
          /\ Returned("clone", path, Len(nodes) + 1)

CloneInstance ==
    /\ Len(nodes) < Len(CloneObjects) + MaxCopies
    /\ \E instance \in Instances(nodes) :
          /\ nodes' = ComponentInstance_cloneRef(nodes, instance)
          /\ Returned("clone", instance, Len(nodes) + 1)

AddPoint ==
    \E path \in Paths(nodes) :
        /\ Len(nodes[nodes[path].points].items) < MaxPoints
        /\ nodes' = Path_addPoint(nodes, path, [x |-> 5, y |-> 5])
        /\ Returned("addPoint", path, Null)

SetOverride ==
    \E instance \in Instances(nodes), property \in OverriddenProperties :
        /\ nodes' = ComponentInstance_setOverrideRef(nodes, instance, property)
        /\ Returned("setOverride", instance, Null)

NextClone ==
    \/ ClonePath
    \/ CloneInstance
    \/ AddPoint
    \/ SetOverride

SpecClone == InitClone /\ [][NextClone]_vars

(***************************************************************************)
(* SpecTools: the user picking tools in the toolbar and using the pen, the *)
(* text and the rectangle tool. ret is "RangeError" when the handler ended *)
(* by the uncaught exception, "ok" when it returned.                       *)
(***************************************************************************)
\* the ids Utils.generateId hands out in a run, in this order
ToolIds == 1..2
\* points of the path under construction
MaxPenPoints == 3
PenTargets == {"point", "inside", "first", "away"}

Handled(w, name, input) ==
    /\ SetApp(w.app)
    /\ toolManager' = w.tm
    /\ op' = name
    /\ arg' = input
    /\ ret' = IF w.thrown THEN "RangeError" ELSE "ok"
    /\ UNCHANGED <<treeVars, renderVars, shareVars, logVars, heapVars>>

\* a toolbar button or a shortcut key
SetTool ==
    /\ \E toolName \in ToolNames :
          Handled(ToolManager_setTool(World(App, toolManager), toolName, 1),
                  "setTool", toolName)
    /\ UNCHANGED nextId

PenMouseDown ==
    /\ toolManager.currentTool = "pen"
    /\ toolManager.pen.points < MaxPenPoints
    /\ nextId + 1 \in ToolIds
    /\ \E target \in PenTargets :
          LET w == PenTool_onMouseDown(World(App, toolManager), nextId + 1, target)
          IN /\ Handled(w, "penMouseDown", target)
             /\ nextId' = IF w.tm.pen.currentPath = nextId + 1
                          THEN nextId + 1 ELSE nextId

\* PenTool.onKeyDown: Enter or Escape
PenKeyDown ==
    /\ toolManager.currentTool = "pen"
    /\ \E key \in {"Enter", "Escape"} :
          Handled(IF key = "Enter" \/ toolManager.pen.currentPath # NoObject
                  THEN PenTool_finishPath(World(App, toolManager), 0)
                  ELSE PenTool_exitEditMode(World(App, toolManager), 0),
                  "penKeyDown", key)
    /\ UNCHANGED nextId

TextMouseDown ==
    /\ toolManager.currentTool = "text"
    /\ nextId + 1 \in ToolIds
    /\ Handled(TextTool_onMouseDown(World(App, toolManager), nextId + 1),
               "textMouseDown", Null)
    /\ nextId' = nextId + 1

\* the user leaves `input` in the textarea, which then loses the focus
TextBlur ==
    /\ toolManager.text.editingObject # NoObject
    /\ \E input \in TextInputs :
          Handled(TextTool_finishEditing(
                      World(App, [toolManager EXCEPT !.text.value = input]), 0),
                  "textBlur", input)
    /\ UNCHANGED nextId

RectangleMouseUp ==
    /\ toolManager.currentTool = "rectangle"
    /\ nextId + 1 \in ToolIds
    /\ \E d \in ShapeDrags :
          Handled(RectangleTool_onMouseUp(World(App, toolManager), nextId + 1,
                                          TRUE, d[1], d[2]),
                  "rectangleMouseUp", d)
    /\ nextId' = nextId + 1

NextTools ==
    \/ SetTool
    \/ PenMouseDown
    \/ PenKeyDown
    \/ TextMouseDown
    \/ TextBlur
    \/ RectangleMouseUp

SpecTools == Init /\ [][NextTools]_vars

(***************************************************************************)
(* SpecRestore: the editor with a caller of FigmaApp.restoreState. The     *)
(* states restored are an empty document, a document of one rectangle and  *)
(* a document with an entry that has neither a type tag nor a name, whose  *)
(* deserialization throws.                                                 *)
(***************************************************************************)
RestoredStates ==
    LET rect == [id |-> 21, type |-> "rectangle", width |-> 50, height |-> 50]
    IN {[objects |-> <<>>, selectedIds |-> <<>>],
        [objects |-> <<rect>>, selectedIds |-> <<21>>],
        [objects |-> <<rect, [id |-> 22]>>, selectedIds |-> <<>>]}

RestoreState ==
    /\ \E state \in RestoredStates :
          /\ SetApp(FigmaApp_restoreState(App, state))
          /\ arg' = state
    /\ op' = "restoreState"
    /\ ret' = Null
    /\ UNCHANGED <<auxVars, nextId, logVars, heapVars>>

NextRestore ==
    \/ PlaceRectangle
    \/ SelectObject
    \/ RestoreState
    \/ Undo
    \/ Redo

SpecRestore == Init /\ [][NextRestore]_vars

(***************************************************************************)
(* SpecOperations: the FigmaApp driven by the operations of its menus and  *)
(* shortcuts on a document of rectangles, a component and its instances,   *)
(* with undo and redo.                                                     *)
(***************************************************************************)
\* the ids Utils.generateId hands out in a run, in this order
OperationIds == 1..6

\* Detach instance. The master of a linked instance is looked up in the
\* document, so the handler is taken when the document holds it.
DetachSelectedInstance ==
    /\ \A i \in 1..Len(selectedObjects) :
          LET o == SelectedObjects(App)[i]
          IN (o.type = "componentInstance" /\ o.masterComponent # NoMaster)
                => FindObject(objects, o.masterComponent) # Null
    /\ LET r == FigmaApp_detachInstance(App, nextId + 1)
       IN /\ r.id - 1 \in OperationIds \cup {0}
          /\ SetApp(r.app)
          /\ nextId' = r.id - 1
          /\ op' = "detach"
          /\ arg' = selectedObjects
          /\ ret' = Null
    /\ UNCHANGED <<auxVars, logVars, heapVars>>

\* Ctrl+A
SelectAll ==
    /\ SetApp(FigmaApp_selectAll(App))
    /\ op' = "selectAll"
    /\ arg' = Null
    /\ ret' = Null
    /\ UNCHANGED <<auxVars, nextId, logVars, heapVars>>

NextOperations ==
    \/ PlaceRectangle
    \/ SelectObject
    \/ SelectAll
    \/ CreateComponent
    \/ DuplicateAsInstance
    \/ DuplicateSelection
    \/ DetachSelectedInstance
    \/ DeleteSelection
    \/ GroupSelection
    \/ UngroupSelection
    \/ Undo
    \/ Redo

SpecOperations == Init /\ [][NextOperations]_vars

(***************************************************************************)
(* SpecInstances: an opened file of a component and an instance, with the  *)
(* operations that make, link, copy and detach instances, and undo and     *)
(* redo. The master of an instance is looked up in the document.           *)
(***************************************************************************)
LinkToMaster ==
    /\ LET all == AllObjects(objects)
       IN \E i \in 1..Len(all), c \in 1..Len(all) :
             /\ all[i].type = "componentInstance"
             /\ all[c].type = "component"
             /\ all[i].masterComponent # NoMaster
                   => FindObject(objects, all[i].masterComponent) # Null
             /\ objects' = ComponentInstance_linkToMaster(objects, all[i].id, all[c].id)
             /\ arg' = <<all[i].id, all[c].id>>
    /\ op' = "linkToMaster"
    /\ ret' = Null
    /\ UNCHANGED <<selectedObjects, history, components, nextId,
                   auxVars, logVars, heapVars>>

NextInstances ==
    \/ ImportJSON
    \/ SelectObject
    \/ DuplicateAsInstance
    \/ DuplicateSelection
    \/ DetachSelectedInstance
    \/ LinkToMaster
    \/ Undo
    \/ Redo

SpecInstances == Init /\ [][NextInstances]_vars

(***************************************************************************)
(* Spec: AutoLayout.apply as a function of the frame. The frame holds the  *)
(* first rectangles of LayoutObjects and any layout settings; every extent *)
(* is even, so that each `/ 2` of the code gives a whole number. Both the  *)
(* TypeScript apply and the legacy JavaScript apply act on the frame.      *)
(***************************************************************************)
Directions == {"horizontal", "vertical"}
PrimaryAligns == {"start", "center", "end", "space-between"}
CounterAligns == {"start", "center", "end", "stretch"}
Sizings == {"hug", "fixed"}
\* the paddings of a layout: none, or left 4, top 6, right 2, bottom 8
Paddings ==
    {[paddingLeft |-> 0, paddingTop |-> 0, paddingRight |-> 0, paddingBottom |-> 0],
     [paddingLeft |-> 4, paddingTop |-> 6, paddingRight |-> 2, paddingBottom |-> 8]}

AppliedLayouts ==
    {AutoLayout_new([direction |-> d, primaryAxisAlign |-> pa, counterAxisAlign |-> ca,
                     primaryAxisSizing |-> ps, counterAxisSizing |-> cs] @@ pad) :
        d \in Directions, pa \in PrimaryAligns, ca \in CounterAligns,
        ps \in Sizings, cs \in Sizings, pad \in Paddings}

\* the frame with layout settings and the first n rectangles as children
FrameOf(layout, n, visible) ==
    [i \in DOMAIN LayoutObjects |->
        IF i = TheFrame
        THEN [LayoutObjects[i] EXCEPT !.autoLayout = layout,
                                      !.children = SubSeq(<<3, 4, 5>>, 1, n)]
        ELSE IF i \in 3..(2 + n)
        THEN [LayoutObjects[i] EXCEPT !.parent = TheFrame,
                                      !.visible = IF i = 4 THEN visible ELSE @]
        ELSE LayoutObjects[i]]

InitApply ==
    /\ objects = <<>>
    /\ selectedObjects = <<>>
    /\ history = HistoryManager_new(MaxSize)
    /\ nextId = 0
    /\ components = <<>>
    /\ \E layout \in AppliedLayouts, n \in 0..3, visible \in BOOLEAN :
          nodes = FrameOf(layout, n, visible)
    /\ renderer = Renderer_new
    /\ frames = 1
    /\ requests = 0
    /\ served = 0
    /\ toolManager = ToolManager_new
    /\ sharedObjects = TRUE
    /\ op = "init"
    /\ arg = Null
    /\ ret = Null
    /\ pushed = <<>>
    /\ onlyPushes = TRUE
    /\ heap = <<>>
    /\ undoRefs = <<>>
    /\ redoRefs = <<>>
    /\ shadowUndo = <<>>
    /\ shadowRedo = <<>>

\* autoLayout.apply(frame), TypeScript; arg is the frame as it was
Apply ==
    /\ nodes' = AutoLayout_apply(nodes, TheFrame)
    /\ Called("apply", nodes)

\* autoLayout.apply(frame), legacy JavaScript; arg is the frame as it was
ApplyJS ==
    /\ nodes' = AutoLayoutJS_apply(nodes, TheFrame)
    /\ Called("applyJS", nodes)

NextApply ==
    \/ Apply
    \/ ApplyJS

SpecApply == InitApply /\ [][NextApply]_vars

(***************************************************************************)
(* Spec: the app together with its renderer. app.objects and               *)
(* renderer.objects are references to arrays. While both refer to one      *)
(* array (sharedObjects), push and splice on app.objects are seen by the   *)
(* renderer; `this.objects = ...` makes app.objects a new array and leaves *)
(* the renderer with the array it had, whose contents no one edits any     *)
(* more. A view is [renderer, shared].                                     *)
(***************************************************************************)
View == [renderer |-> renderer, shared |-> sharedObjects]

\* this.renderer.setObjects(this.objects)
View_setObjects(v, objs) ==
    [renderer |-> Renderer_setObjects(v.renderer, objs), shared |-> TRUE]

\* this.renderer.setSelection(this.selectedObjects), from selectObjects
View_setSelection(v, sel) ==
    [v EXCEPT !.renderer = Renderer_setSelection(@, sel)]

\* this.objects = data.objects.map(...): the renderer is handed nothing
View_assigned(v) == [v EXCEPT !.shared = FALSE]

\* the renderer after restoreState: the map that throws leaves before the
\* assignment
View_restoreState(v, before, after) ==
    IF after.history.isApplying THEN v
    ELSE View_setSelection(View_setObjects(View_assigned(v), after.objects),
                           after.selectedObjects)

\* the renderer after importJSON: selectObjects([]) and app.render() follow
\* the assignment, setObjects does not
View_importJSON(v, data) ==
    IF Has(data, "objects")
         /\ ~\E i \in 1..Len(data.objects) :
                DesignObject_deserialize_throws(data.objects[i])
    THEN [View_setSelection(View_assigned(v), <<>>)
             EXCEPT !.renderer = Renderer_requestRender(@)]
    ELSE v

Shown(v) ==
    /\ renderer' = v.renderer
    /\ sharedObjects' = v.shared

\* the rectangle tool: addObject on mouse down (setObjects, then
\* selectObjects), saveState on mouse up
PlaceShown ==
    /\ nextId + 1 \in RectangleIds
    /\ LET a == RectangleTool_gesture(App, nextId + 1, TRUE,
                                      ComponentDrag[1], ComponentDrag[2])
       IN /\ SetApp(a)
          /\ Shown(View_setSelection(View_setObjects(View, a.objects),
                                     a.selectedObjects))
          /\ arg' = FigmaApp_currentState(a)
    /\ nextId' = nextId + 1
    /\ op' = "add"
    /\ ret' = Null
    /\ UNCHANGED <<treeVars, frames, requests, served, toolVars, logVars, heapVars>>

\* a plain click on an object: selectObjects when it was not selected
SelectShown ==
    /\ \E i \in 1..Len(objects) :
          LET a == SelectTool_onMouseDown(App, objects[i].id, FALSE)
          IN /\ SetApp(a)
             /\ Shown(IF objects[i].id \in Ids(selectedObjects) THEN View
                      ELSE View_setSelection(View, a.selectedObjects))
             /\ arg' = FigmaApp_currentState(a)
    /\ op' = "select"
    /\ ret' = Null
    /\ UNCHANGED <<treeVars, frames, requests, served, toolVars, nextId, logVars,
                   heapVars>>

\* Delete: removeObject of each selected object (setObjects), then
\* selectObjects([])
DeleteShown ==
    /\ Len(selectedObjects) > 0
    /\ LET a == FigmaApp_deleteSelection(App)
       IN /\ SetApp(a)
          /\ Shown(View_setSelection(View_setObjects(View, a.objects), <<>>))
    /\ op' = "remove"
    /\ arg' = FigmaApp_currentState(App)
    /\ ret' = Null
    /\ UNCHANGED <<treeVars, frames, requests, served, toolVars, nextId, logVars,
                   heapVars>>

\* Detach instance: the splices, then setObjects and selectObjects
DetachShown ==
    /\ \E i \in 1..Len(selectedObjects) :
          SelectedObjects(App)[i].type = "componentInstance"
    /\ \A i \in 1..Len(selectedObjects) :
          LET o == SelectedObjects(App)[i]
          IN (o.type = "componentInstance" /\ o.masterComponent # NoMaster)
                => FindObject(objects, o.masterComponent) # Null
    /\ LET r == FigmaApp_detachInstance(App, nextId + 1)
       IN /\ r.id - 1 \in OperationIds \cup {0}
          /\ SetApp(r.app)
          /\ Shown(View_setSelection(View_setObjects(View, r.app.objects),
                                     r.app.selectedObjects))
          /\ nextId' = r.id - 1
    /\ op' = "detach"
    /\ arg' = selectedObjects
    /\ ret' = Null
    /\ UNCHANGED <<treeVars, frames, requests, served, toolVars, logVars, heapVars>>

UndoShown ==
    /\ LET r == FigmaApp_undo(App)
       IN /\ r.ret # Null
          /\ SetApp(r.app)
          /\ Shown(View_restoreState(View, App, r.app))
          /\ ret' = r.ret
    /\ op' = "undo"
    /\ arg' = FigmaApp_currentState(App)
    /\ UNCHANGED <<treeVars, frames, requests, served, toolVars, nextId, logVars,
                   heapVars>>

RedoShown ==
    /\ LET r == FigmaApp_redo(App)
       IN /\ r.ret # Null
          /\ SetApp(r.app)
          /\ Shown(View_restoreState(View, App, r.app))
          /\ ret' = r.ret
    /\ op' = "redo"
    /\ arg' = Null
    /\ UNCHANGED <<treeVars, frames, requests, served, toolVars, nextId, logVars,
                   heapVars>>

\* a .json file dropped on the canvas
ImportShown ==
    /\ \E data \in ImportedFiles :
          /\ SetApp(ExportManager_importJSON(App, data))
          /\ Shown(View_importJSON(View, data))
    /\ op' = "import"
    /\ arg' = Null
    /\ ret' = Null
    /\ UNCHANGED <<treeVars, frames, requests, served, toolVars, nextId, logVars,
                   heapVars>>

NextRepaint ==
    \/ PlaceShown
    \/ SelectShown
    \/ DeleteShown
    \/ DetachShown
    \/ UndoShown
    \/ RedoShown
    \/ ImportShown

SpecRepaint == Init /\ [][NextRepaint]_vars

(***************************************************************************)
(* Claims                                                                  *)
(***************************************************************************)

\* C1: from any state the app can be in where undo has something to undo,
\* FigmaApp.undo() immediately followed by FigmaApp.redo() gives back the
\* pre-undo document: the serialized objects and the selected ids are
\* identical to those just before the undo.
C1_UndoThenRedoRestores ==
    HistoryManager_canUndo(history) =>
        LET undone == FigmaApp_undo(App).app
            redone == FigmaApp_redo(undone).app
        IN FigmaApp_currentState(redone) = FigmaApp_currentState(App)

\* C2: a restoreState made by undo or redo records nothing: an undo that
\* restores removes the top of the undo stack and adds the current state to
\* the redo stack, a redo that restores removes the top of the redo stack and
\* leaves the undo stack as it was; no snapshot is appended to the undo stack
\* and the redo stack is not cleared.
C2_RestoreIsNotRecorded ==
    [][/\ (op' = "undo" /\ ret' # Null) =>
              /\ history'.undoStack = Front(history.undoStack)
              /\ history'.redoStack = Append(history.redoStack, arg')
       /\ (op' = "redo" /\ ret' # Null) =>
              /\ history'.undoStack = history.undoStack
              /\ history'.redoStack = Front(history.redoStack)]_vars

\* C2 witness: a redo has restored a state while the undo stack held entries
C2_Witness ==
    /\ op = "redo"
    /\ ret # Null
    /\ history.undoStack # <<>>
    /\ objects # <<>>

\* C3: while isApplying is set, a push leaves the undo stack and the redo
\* stack as they were.
C3_PushDroppedWhileApplying ==
    [][(op' = "push" /\ history.isApplying) =>
           /\ history'.undoStack = history.undoStack
           /\ history'.redoStack = history.redoStack]_vars

\* C3 witness: a push was made during a restore, with entries on both stacks
C3_Witness ==
    /\ op = "push"
    /\ history.isApplying
    /\ history.undoStack # <<>>
    /\ history.redoStack # <<>>

\* C4: every snapshot on the undo or redo stack is a deep clone: whatever the
\* caller writes, after the call, into the state object it passed to push or
\* undo, or into the arrays and objects nested in it, each stored snapshot
\* still denotes what it denoted when it was stored.
C4_SnapshotsAreDeepClones ==
    /\ Len(undoRefs) = Len(shadowUndo)
    /\ Len(redoRefs) = Len(shadowRedo)
    /\ \A i \in 1..Len(undoRefs) : Denotes(heap, undoRefs[i]) = shadowUndo[i]
    /\ \A i \in 1..Len(redoRefs) : Denotes(heap, redoRefs[i]) = shadowRedo[i]

\* C4 witness: the caller wrote into its state after a push and an undo had
\* stored it, and the state now differs from the snapshots on both stacks
C4_Witness ==
    /\ op = "write"
    /\ undoRefs # <<>>
    /\ redoRefs # <<>>
    /\ Denotes(heap, CallerState) # Denotes(heap, Last(undoRefs))
    /\ Denotes(heap, CallerState) # Denotes(heap, Last(redoRefs))

\* C5: after maxSize + k pushes (k >= 0) onto an empty history with no restore
\* in progress, the undo stack holds exactly the last maxSize states pushed,
\* in push order.
C5_HistoryBound ==
    (onlyPushes /\ Len(pushed) >= history.maxSize) =>
        history.undoStack =
            SubSeq(pushed, Len(pushed) - history.maxSize + 1, Len(pushed))

\* C5 witness: maxSize + MaxExtra states were pushed, the evicted ones unlike
\* the ones that took their place
C5_Witness ==
    /\ onlyPushes
    /\ Len(pushed) = MaxSize + MaxExtra
    /\ pushed[1] # pushed[MaxSize + 1]
    /\ Len(history.undoStack) = MaxSize

\* C6: with no restore in progress, push(state) empties the redo stack and
\* puts a clone of state on top of the undo stack, above the entries that
\* were there (less the oldest one when the stack was full).
C6_PushEffect ==
    [][(op' = "push" /\ ~history.isApplying) =>
           /\ history'.redoStack = <<>>
           /\ history'.undoStack # <<>>
           /\ Last(history'.undoStack) = arg'
           /\ Front(history'.undoStack) =
                  IF Len(history.undoStack) < history.maxSize
                  THEN history.undoStack
                  ELSE Tail(history.undoStack)]_vars

\* C6 witness: a push made outside a restore, onto a stack that held entries
C6_Witness ==
    /\ op = "push"
    /\ ~history.isApplying
    /\ Len(history.undoStack) >= 2
    /\ history.redoStack = <<>>

\* C7: with a non-empty undo stack, undo(currentState) puts a clone of
\* currentState on top of the redo stack, removes the top of the undo stack
\* and returns it; the other entries of both stacks stay.
C7_UndoEffect ==
    [][(op' = "undo" /\ history.undoStack # <<>>) =>
           /\ history'.redoStack = Append(history.redoStack, arg')
           /\ history'.undoStack = Front(history.undoStack)
           /\ ret' = Last(history.undoStack)]_vars

\* C7 witness: an undo returned a state and both stacks still hold entries
C7_Witness ==
    /\ op = "undo"
    /\ ret # Null
    /\ history.undoStack # <<>>
    /\ Len(history.redoStack) >= 1
    /\ Last(history.redoStack) = arg

\* C8: redo() removes and returns the top of a non-empty redo stack, and
\* returns null, changing neither stack, when the redo stack is empty.
C8_RedoEffect ==
    [][op' = "redo" =>
           IF history.redoStack # <<>>
           THEN /\ history'.redoStack = Front(history.redoStack)
                /\ history'.undoStack = history.undoStack
                /\ ret' = Last(history.redoStack)
           ELSE /\ ret' = Null
                /\ history' = history]_vars

\* C8 witness: a redo returned a state and left an older entry on the redo stack
C8_Witness ==
    /\ op = "redo"
    /\ ret # Null
    /\ history.redoStack # <<>>
    /\ Last(history.redoStack) # ret

\* C9: with an empty undo stack, undo returns null and changes nothing: the
\* stacks stay (the current state does not go onto the redo stack) and
\* FigmaApp.undo() leaves the objects and the selection as they were.
C9_UndoOnEmptyIsNoOp ==
    [][(op' = "undo" /\ history.undoStack = <<>>) =>
           /\ ret' = Null
           /\ history' = history
           /\ objects' = objects
           /\ selectedObjects' = selectedObjects]_vars

\* C9 witness: FigmaApp.undo() found nothing to undo in a document with a
\* selected object and a redo entry
C9_Witness ==
    /\ op = "undo"
    /\ ret = Null
    /\ history.undoStack = <<>>
    /\ history.redoStack # <<>>
    /\ selectedObjects # <<>>

\* C10: the undo stack and the redo stack each hold at most maxSize
\* snapshots, whatever calls were made.
C10_StacksBounded ==
    /\ Len(history.undoStack) <= history.maxSize
    /\ Len(history.redoStack) <= history.maxSize

\* C10 witness: undo was called until the redo stack held maxSize snapshots
C10_Witness ==
    /\ op = "undo"
    /\ Len(history.redoStack) = history.maxSize
    /\ history.maxSize = MaxSize

\* C11: at every point after any sequence of edits to a master Component
\* and to its linked instances, every synced property of a linked
\* ComponentInstance that is not named in its overrides equals the
\* master's current value of that property.
C11_InstanceFollowsMaster ==
    LET all == AllObjects(objects)
    IN \A i \in 1..Len(all) :
          (all[i].type = "componentInstance" /\ all[i].masterComponent # NoMaster) =>
              LET master == FindObject(objects, all[i].masterComponent)
              IN \A p \in SyncedProperties \ all[i].overrides :
                    all[i][p] = master[p]


\* C12: after a bulk deserialize by the host (restoreState on undo or
\* redo, importJSON), every Component in the document is registered under
\* its componentId, and every ComponentInstance whose componentId names a
\* Component in the document has that Component as its masterComponent.
C12_BulkDeserializeRelinks ==
    ((op \in {"undo", "redo"} /\ ret # Null) \/ op = "import") =>
        LET all == AllObjects(objects)
            IsComponent(i) == all[i].type = "component"
            IsInstance(i) == all[i].type = "componentInstance"
        IN /\ \A i \in 1..Len(all) :
                 IsComponent(i) =>
                     /\ all[i].componentId \in DOMAIN components
                     /\ components[all[i].componentId] = all[i].id
           /\ \A i, j \in 1..Len(all) :
                 (IsInstance(i) /\ IsComponent(j)
                    /\ all[i].componentId = all[j].componentId) =>
                     all[i].masterComponent = all[j].id

\* C13: for every object x of the document reachable by editing,
\* deserialize(serialize(x)) reproduces x's fields, so that
\* serialize(deserialize(serialize(x))) equals serialize(x).
C13_SerializeRoundTrip ==
    \A i \in 1..Len(objects) :
        Serialize(DesignObject_deserialize(Serialize(objects[i]))) = Serialize(objects[i])

\* the objects below a container: its children, their children, and so on
RECURSIVE Below(_, _, _)
Below(ns, refs, depth) ==
    LET next == refs \cup UNION {Ids(ns[r].children) : r \in refs}
    IN IF depth = 0 \/ next = refs THEN refs ELSE Below(ns, next, depth - 1)

Descendants(ns, container) ==
    Below(ns, Ids(ns[container].children), Len(ns))

\* C14: after any sequence of addChild calls on Frame, Group and Component
\* containers, no container is its own transitive ancestor: an add that
\* would create a cycle is rejected at the point of the add.
C14_NoContainerCycle ==
    \A container \in DOMAIN nodes : container \notin Descendants(nodes, container)

\* C15: after any sequence of document operations (tool creation,
\* duplicate, createComponent, createInstance, undo, redo), no two objects
\* of the open document, at any nesting depth, have the same id.
C15_IdsUnique ==
    LET all == AllObjects(objects)
    IN \A i, j \in 1..Len(all) : all[i].id = all[j].id => i = j

\* C16: after any edit (resize-handle drag, property-panel input), every
\* object's width and height are >= 0: no edit leaves a negative size.
C16_SizesNotNegative ==
    \A i \in 1..Len(objects) : objects[i].width >= 0 /\ objects[i].height >= 0

\* C17: after any assignment to an object's rotation (rotate-handle drag,
\* property-panel input, construction from data), the stored rotation is a
\* value in [0, 360) degrees.
C17_RotationNormalized ==
    \A i \in 1..Len(objects) : objects[i].rotation >= 0 /\ objects[i].rotation < 360

BooleanSelection ==
    /\ Len(selectedObjects) = 2
    /\ \A i \in 1..2 :
          FindObject(objects, selectedObjects[i]).type \in {"rectangle", "ellipse", "path"}

GroupSelected ==
    \E i \in 1..Len(selectedObjects) :
        FindObject(objects, selectedObjects[i]).type = "group"

Degenerate(g) ==
    CASE g.tool \in {"rectangle", "ellipse"} ->
            g.extent[1] < MinDragSize /\ g.extent[2] < MinDragSize
      [] g.tool = "line" ->
            Utils_distance2(0, 0, g.extent[1], g.extent[2])
                < MinLineLength * MinLineLength
      [] g.tool = "path" -> g.extent < MinPathPoints
      [] g.tool = "text" -> g.moved /\ Trim(g.extent) = <<>>

\* C20: a drawing gesture that produces a degenerate object (a rectangle or
\* ellipse drag of under 2px, a zero-length line, a path with fewer than 2
\* points, an empty text) ends with that object removed from the document
\* and with no snapshot pushed to history.
C20_DegenerateGestureDiscarded ==
    [][(op' = "draw" /\ Degenerate(arg'))
       => /\ objects' = objects
          /\ history' = history]_vars

\* C21: DesignObject.deserialize given data whose type tag is not one of
\* the ten known variants returns a generic placeholder object without
\* throwing, so deserializing a list that contains one such record still
\* loads every other record of the document: after a file is opened, the
\* document holds one object per record of the file, in the file's order.
C21_UnknownTagLoads ==
    op = "open" =>
        /\ Len(objects) = Len(arg.objects)
        /\ \A i \in 1..Len(objects) : objects[i].id = arg.objects[i].id

\* the group's x, y, width and height are the box around its children's
\* bounds
BoundsAreUnion(ns, group) ==
    LET kids == {ns[group].children[i] : i \in 1..Len(ns[group].children)}
        g == ns[group]
    IN /\ kids # {}
       /\ \A c \in kids :
             /\ g.x <= ns[c].x /\ ns[c].x + ns[c].width <= g.x + g.width
             /\ g.y <= ns[c].y /\ ns[c].y + ns[c].height <= g.y + g.height
       /\ \E c \in kids : ns[c].x = g.x
       /\ \E c \in kids : ns[c].y = g.y
       /\ \E c \in kids : ns[c].x + ns[c].width = g.x + g.width
       /\ \E c \in kids : ns[c].y + ns[c].height = g.y + g.height

\* C22: addChild(container, obj) sets obj.parent to the container, appends
\* obj as the last element of the container's children, and then runs the
\* container's post-processing: a Frame with AutoLayout enabled re-runs
\* AutoLayout (the frame is left as AutoLayout.apply leaves it), a Group
\* recomputes its bounds.
C22_AddChildPostProcesses ==
    [][op' = "addChild" =>
         LET container == arg'[1]
             obj == arg'[2]
         IN /\ nodes'[obj].parent = container
            /\ nodes'[container].children = Append(nodes[container].children, obj)
            /\ (nodes[container].type = "frame" /\ nodes[container].autoLayout # Null)
                  => /\ nodes'[container].applied
                     /\ nodes' = AutoLayout_apply(nodes', container)
            /\ nodes[container].type = "group" => BoundsAreUnion(nodes', container)]_vars

\* a third rectangle was added to the frame with auto layout enabled, while
\* the group holds rectangles too
C22_Witness ==
    /\ op = "addChild"
    /\ arg[1] = TheFrame
    /\ nodes[TheFrame].autoLayout # Null
    /\ nodes[TheFrame].applied
    /\ Len(nodes[TheFrame].children) = 3
    /\ Len(nodes[TheGroup].children) >= 2

\* C23: while AutoLayout is enabled on a Frame, every addChild and every
\* removeChild on that Frame re-runs the layout before returning, and a
\* resize of a child on its own does not re-run the layout.
C23_ChildChangeRelayouts ==
    [][/\ (op' \in {"addChild", "removeChild"}
             /\ nodes[arg'[1]].type = "frame"
             /\ nodes[arg'[1]].autoLayout # Null)
          => nodes'[arg'[1]].applied
       /\ op' = "resize"
          => /\ ~nodes'[TheFrame].applied
             /\ nodes'[TheFrame] = Began(nodes)[TheFrame]]_vars

\* C23, amended: while AutoLayout is enabled on a Frame, every addChild on
\* that Frame and every removeChild of one of its children re-runs the
\* layout before returning; a removeChild of an object that is not among
\* the Frame's children, and a resize of a child on its own, do not re-run
\* the layout.
C23_ChildAddedOrRemovedRelayouts ==
    [][/\ (op' \in {"addChild", "removeChild"}
             /\ nodes[arg'[1]].type = "frame"
             /\ nodes[arg'[1]].autoLayout # Null)
          => (nodes'[arg'[1]].applied
                <=> (op' = "addChild"
                       \/ IndexOf(nodes[arg'[1]].children, arg'[2]) # 0))
       /\ op' = "resize"
          => /\ ~nodes'[TheFrame].applied
             /\ nodes'[TheFrame] = Began(nodes)[TheFrame]]_vars

\* the resized rectangle was removed from the frame, auto layout enabled
\* and another rectangle left in it, and the layout ran
C23_Witness ==
    /\ op = "removeChild"
    /\ arg[1] = TheFrame
    /\ nodes[TheFrame].autoLayout # Null
    /\ nodes[TheFrame].applied
    /\ Len(nodes[TheFrame].children) = 1
    /\ nodes[arg[2]].width \in ResizedWidths

\* the children of the frame that are visible, in the frame's child order
VisibleChildren(ns, frame) ==
    LET IsVisible(c) == ns[c].visible
    IN SelectSeq(ns[frame].children, IsVisible)

\* totalPrimarySize and maxCounterSize of the visible children
ContentPrimarySize(ns, frame) ==
    LET kids == VisibleChildren(ns, frame)
    IN TotalSize(ns, kids, ns[frame].autoLayout.direction = "horizontal")
          + ns[frame].autoLayout.spacing * (Len(kids) - 1)
ContentCounterSize(ns, frame) ==
    MaxCrossSize(ns, VisibleChildren(ns, frame),
                 ns[frame].autoLayout.direction = "horizontal")

\* C24: AutoLayout.apply lays out only the Frame's visible children, in the
\* Frame's existing child order: invisible children are neither moved nor
\* counted in totalPrimarySize, maxCounterSize or the number of spacing
\* gaps. Whenever the layout has run on a frame with children, each
\* invisible child is where it was, and a hug-sized width of a horizontal
\* frame is what the visible children alone add up to.
C24_OnlyVisibleLaidOut ==
    [][(nodes'[TheFrame].applied /\ Len(nodes'[TheFrame].children) > 0) =>
          LET f == nodes'[TheFrame]
              layout == f.autoLayout
          IN /\ \A i \in 1..Len(f.children) :
                   LET c == f.children[i]
                   IN ~nodes'[c].visible =>
                         /\ nodes'[c].x = nodes[c].x
                         /\ nodes'[c].y = nodes[c].y
             /\ (layout.direction = "horizontal"
                   /\ layout.primaryAxisSizing = "hug"
                   /\ VisibleChildren(nodes', TheFrame) # <<>>)
                  => f.width = ContentPrimarySize(nodes', TheFrame)
                                  + layout.paddingLeft + layout.paddingRight]_vars

\* C25: after AutoLayout.apply, a Frame axis whose sizing mode is hug has
\* extent equal to content size plus padding on that axis (a horizontal
\* Frame with children of widths 20, 30, 40, spacing 10 and zero padding
\* gets width 110), and an axis whose sizing mode is fixed keeps the
\* Frame's authored extent. The content is what the layout arranges: the
\* visible children and the gaps between them.
C25_HugAndFixedExtents ==
    [][nodes'[TheFrame].applied =>
          LET f == nodes'[TheFrame]
              before == nodes[TheFrame]
              layout == f.autoLayout
              isHorizontal == layout.direction = "horizontal"
              primary == IF VisibleChildren(nodes', TheFrame) = <<>> THEN 0
                         ELSE ContentPrimarySize(nodes', TheFrame)
              counter == ContentCounterSize(nodes', TheFrame)
              horizontalPadding == layout.paddingLeft + layout.paddingRight
              verticalPadding == layout.paddingTop + layout.paddingBottom
              Extent(sizing, content, padding, now, authored) ==
                  IF sizing = "hug" THEN now = content + padding ELSE now = authored
          IN IF isHorizontal
             THEN /\ Extent(layout.primaryAxisSizing, primary, horizontalPadding,
                            f.width, before.width)
                  /\ Extent(layout.counterAxisSizing, counter, verticalPadding,
                            f.height, before.height)
             ELSE /\ Extent(layout.primaryAxisSizing, primary, verticalPadding,
                            f.height, before.height)
                  /\ Extent(layout.counterAxisSizing, counter, horizontalPadding,
                            f.width, before.width)]_vars

\* x, y, width and height of an object
Geometry(obj) == <<obj.x, obj.y, obj.width, obj.height>>

C27_DetachYieldsGroup ==
    [][(op' = "detach" /\ nodes[arg'].masterComponent # NoMaster) =>
          LET instance == nodes[arg']
              master == nodes[instance.masterComponent]
              group == ret'
          IN /\ group \in DOMAIN nodes' \ DOMAIN nodes
             /\ nodes'[group].type = "group"
             /\ Len(nodes'[group].children) = Len(master.children)
             /\ \A k \in 1..Len(master.children) :
                   LET child == nodes[master.children[k]]
                       cloned == nodes'[group].children[k]
                   IN /\ cloned \in DOMAIN nodes' \ DOMAIN nodes
                      /\ nodes'[cloned].type = child.type
                      /\ nodes'[cloned].width = child.width
                      /\ nodes'[cloned].height = child.height
                      /\ nodes'[cloned].x = instance.x + (child.x - master.x)
                      /\ nodes'[cloned].y = instance.y + (child.y - master.y)
             /\ arg' \notin nodes'[instance.masterComponent].instances]_vars

\* an instance that was moved away from where the component is was
\* detached, after a rectangle of the component had been moved, while the
\* component has another instance
C27_Witness ==
    /\ op = "detach"
    /\ ret # NoGroup
    /\ nodes[arg].x = 100
    /\ nodes[2].x = 40
    /\ Len(nodes[ret].children) = 2
    /\ nodes[TheComponent].instances # {}

\* what an object's points and overrides are: the content of the array and
\* of the overrides object it refers to
PointsOf(ns, path) == ns[ns[path].points].items
OverridesOf(ns, instance) == ns[ns[instance].overrides].keys

\* C28: clone(obj) returns a deep-value copy with a freshly generated id:
\* the clone shares no mutable sub-object (children, path points, gradient,
\* shadows, overrides) with the original, so mutating either object after
\* the clone never changes the other. A point added to one path leaves the
\* points of every other path as they were, and an override set on one
\* instance leaves the overrides of every other instance as they were.
C28_CloneSharesNothing ==
    [][/\ op' = "addPoint" =>
             \A other \in Paths(nodes) \ {arg'} :
                 PointsOf(nodes', other) = PointsOf(nodes, other)
       /\ op' = "setOverride" =>
             \A other \in Instances(nodes) \ {arg'} :
                 OverridesOf(nodes', other) = OverridesOf(nodes, other)]_vars

\* C29: a clone of a ComponentInstance still points at the same master
\* Component as the original, and a clone of a Component is a distinct
\* Component that no instance of the original references as its master.
\* For every linked instance and every component of the document, at any
\* depth, with the id Utils.generateId would hand to the clone.
C29_CloneKeepsMaster ==
    LET all == AllObjects(objects)
    IN \A i \in 1..Len(all) :
          LET cloned == DesignObject_clone(all[i], nextId + 1)
          IN /\ (all[i].type = "componentInstance"
                 /\ all[i].masterComponent # NoMaster)
                    => cloned.masterComponent = all[i].masterComponent
             /\ all[i].type = "component"
                    => /\ cloned.type = "component"
                       /\ cloned.id # all[i].id
                       /\ \A j \in 1..Len(all) :
                             all[j].type = "componentInstance"
                                => all[j].masterComponent # cloned.id

\* C30: after any child add, child remove or child resize, a Group's bounds
\* (x, y, width, height) equal the union of its children's bounds. Stated
\* for a group that has children after the step.
C30_GroupBoundsAreUnion ==
    [][(op' \in {"addChild", "removeChild", "resize"}
        /\ nodes'[TheGroup].children # <<>>)
          => BoundsAreUnion(nodes', TheGroup)]_vars

\* the serialized document of an app
Document(app) == FigmaApp_currentState(app).objects

\* one FigmaApp.undo() after the edit that made `edited` out of the
\* current app gives the current document back
UndoRestores(edited) == Document(FigmaApp_undo(edited).app) = Document(App)

\* C31: after any single committed edit (a shape drawn with a drawing
\* tool, a property-panel change, a drag, a delete, duplicate, paste or
\* group), one FigmaApp.undo() restores the document to its serialized
\* state immediately before that edit. Stated for every state the editor
\* reaches and every edit it can commit there: a rectangle drawn, a width
\* typed in the panel, the selection deleted.
C31_UndoRestoresPriorDocument ==
    /\ \A size \in DragSizes :
          LET drawn == RectangleTool_gesture(App, nextId + 1, TRUE, size[1], size[2])
          IN (nextId + 1 \in ObjectIds /\ Len(drawn.objects) > Len(objects))
                => UndoRestores(drawn)
    /\ \A v \in PanelValues :
          \/ Len(selectedObjects) = 0
          \/ UndoRestores(PanelManager_updateSelectedProperty(App, v))
    /\ \/ Len(selectedObjects) = 0
       \/ UndoRestores(FigmaApp_deleteSelection(App))

\* C32: after an undo followed by a redo, the same edit can be undone
\* again: the undo stack has the same length as before the first undo,
\* canUndo() is true, and a second undo returns the same snapshot the
\* first undo returned. Stated for every state the editor reaches with
\* something to undo.
C32_UndoRedoUndo ==
    LET first == FigmaApp_undo(App)
        redone == FigmaApp_redo(first.app)
        second == FigmaApp_undo(redone.app)
    IN HistoryManager_canUndo(history) =>
          /\ Len(redone.app.history.undoStack) = Len(history.undoStack)
          /\ HistoryManager_canUndo(redone.app.history)
          /\ second.ret = first.ret

\* C33: every ToolManager.setTool(name) call for a registered tool
\* terminates with currentTool equal to name; in particular finishing or
\* leaving the pen tool (PenTool.finishPath, exitEditMode, deactivate) does
\* not re-enter setTool without bound. No handler ends by the RangeError of
\* an exhausted call stack, and after a setTool(name) the current tool is
\* name.
C33_SetToolTerminates ==
    /\ op # "init" => ret # "RangeError"
    /\ op = "setTool" => toolManager.currentTool = arg

\* C34: HistoryManager.isApplying is false whenever no restoreState call is
\* executing: every restoreState, including one in which deserializing a
\* snapshot entry throws, ends with the flag cleared, so no later saveState
\* is dropped. Between two handlers no restoreState is executing.
C34_ApplyingClearedAfterRestore == ~history.isApplying

C36_ChildrenMatchParent ==
    \A c \in DOMAIN nodes, o \in DOMAIN nodes :
        IsContainer(nodes[c]) =>
            ((\E i \in 1..Len(nodes[c].children) : nodes[c].children[i] = o)
                <=> nodes[o].parent = c)

\* C37: after any sequence of createInstance, linkToMaster, detach, clone
\* and undo/redo, a ComponentInstance i is in Component c's instances set
\* exactly when i.masterComponent is c. For the instances and components
\* of the document, at any depth.
C37_InstancesMatchMaster ==
    LET all == AllObjects(objects)
    IN \A i \in 1..Len(all), c \in 1..Len(all) :
          (all[i].type = "componentInstance" /\ all[c].type = "component")
             => (all[i].id \in all[c].instances
                    <=> all[i].masterComponent = all[c].id)

\* C37 witness: an instance was linked to a component that already had an
\* instance made by createInstance
C37_Witness ==
    LET all == AllObjects(objects)
    IN /\ op = "linkToMaster"
       /\ \E c \in 1..Len(all) :
             /\ all[c].type = "component"
             /\ arg[1] \in all[c].instances
             /\ Cardinality(all[c].instances) > 1

\* C38: after every operation that changes the app's objects list (add,
\* remove, detach, undo/redo restore, JSON import) renderer.objects is the
\* array app.objects is, so the next repaint draws the current document
C38_RendererHoldsObjects ==
    /\ sharedObjects
    /\ renderer.objects = objects

\* the same, for every listed operation but the import
C38_RendererHoldsObjectsButImport ==
    [][op' \in {"add", "remove", "detach", "undo", "redo"}
          => (sharedObjects' /\ renderer'.objects = objects')]_vars

\* the geometry AutoLayout.apply writes: each node's position and size
LaidOut(ns) ==
    [i \in DOMAIN ns |-> [x |-> ns[i].x, y |-> ns[i].y,
                          width |-> ns[i].width, height |-> ns[i].height]]

\* C39: AutoLayout.apply is idempotent: applied again to the frame it has
\* just laid out, with nothing changed in between, it leaves every child's
\* position and size and the frame's size as they were, for every
\* direction, alignment and sizing mode
C39_ApplyIdempotent ==
    /\ op = "apply" =>
          LaidOut(AutoLayout_apply(nodes, TheFrame)) = LaidOut(nodes)
    /\ op = "applyJS" =>
          LaidOut(AutoLayoutJS_apply(nodes, TheFrame)) = LaidOut(nodes)

\* the TypeScript half of C39
C39_ApplyIdempotentTS ==
    op = "apply" => LaidOut(AutoLayout_apply(nodes, TheFrame)) = LaidOut(nodes)

\* C40: for the same frame, children and layout settings the TypeScript
\* apply and the legacy JavaScript apply give the same child positions,
\* child sizes and frame size
C40_BuildsAgree ==
    LaidOut(AutoLayout_apply(nodes, TheFrame))
        = LaidOut(AutoLayoutJS_apply(nodes, TheFrame))

\* where the two do agree: a frame whose children are all visible, with
\* primaryAxisAlign start, counterAxisAlign start
C40_BuildsAgreeOnStart ==
    LET layout == nodes[TheFrame].autoLayout
    IN (/\ \A i \in 1..Len(nodes[TheFrame].children) :
              nodes[nodes[TheFrame].children[i]].visible
        /\ layout.primaryAxisAlign = "start"
        /\ layout.counterAxisAlign = "start")
       => C40_BuildsAgree

====
